---- MODULE Spec2Model ----
(***************************************************************************)
(* The voter session of AVClient (src/lib/av_client.ts, second class) and  *)
(* the vote submission protocol of SubmitVotes                             *)
(* (src/lib/av_client/submit_votes.ts).                                    *)
(*                                                                         *)
(* One action models one call of a public method of the client, from the   *)
(* call to the settlement of the promise it returns.  The replies of the   *)
(* collaborators (bulletin board, OTP provider, voter authorization        *)
(* coordinator) are inputs of the action.  The caller awaits every call    *)
(* before it makes the next one.                                           *)
(*                                                                         *)
(* Hashes, keys and signatures are symbolic terms: hashString(x) is the    *)
(* term <<"sha256", x>>, a signature is the term built from the signed     *)
(* hash and the private key, and it verifies under the matching public     *)
(* key only.                                                               *)
(***************************************************************************)
EXTENDS Integers, Sequences, FiniteSets, TLC

\* ------------------------------------------------------------------ bounds
\* Number of key pairs randomKeyPair() hands out in one run of the model.
MaxKeys == 2

\* Number of calls a caller that does not await has in flight at a time.
MaxInFlight == 2

\* ------------------------------------------------------- optional values
\* A field that was never assigned is undefined; an assigned field holds
\* Some(v).  Both are sequences, so that any two fields can be compared.
undefined == <<>>
Some(v) == <<v>>
Val(f) == f[1]

\* ----------------------------------------------------------- input values
Emails == {"voter@foo.bar", "other@foo.bar"}
OpaqueVoterIds == {"voter123"}
AccessCodes == {"1234"}
SessionIds == {"session-1"}
ElectionCodes == {"aAjEuD64Fo2143"}
Affidavits == {"fake affidavit data"}
TestCodes == {"test-code"}
Randomizers == {"r1", "r2"}

\* Contests of the election configuration and their options.
Ballots == ("1" :> {"option1", "option2"}) @@ ("2" :> {"optiona", "optionb"})

\* Cast vote records a caller may pass.
CastVoteRecords ==
  { ("1" :> "option1") @@ ("2" :> "optiona"),
    ("1" :> "option1"),
    ("1" :> "option1") @@ ("3" :> "optiona"),
    ("1" :> "option1") @@ ("2" :> "wrong_option") }

\* Sets of contests the bulletin board may declare a voter eligible for.
EligibleContests == { {"1"}, {"1", "2"} }

\* ------------------------------------------------------------------- keys
KeyPairOf(id) == [privateKey |-> <<"private", id>>, publicKey |-> <<"public", id>>]
PublicKeyOf(privateKey) == <<"public", privateKey[2]>>

ServerKeyPair == KeyPairOf(<<"dbb", 0>>)
ForeignKeyPair == KeyPairOf(<<"foreign", 0>>)
ElectionKeyPair == KeyPairOf(<<"election", 0>>)
CodesKeyPair == KeyPairOf(<<"codes", 0>>)

\* ------------------------------------------------- election configuration
CompleteService == [url |-> "x", election_context_uuid |-> "x", public_key |-> "x"]
Services ==
  { CompleteService,
    [CompleteService EXCEPT !.url = ""],
    [CompleteService EXCEPT !.election_context_uuid = ""],
    [CompleteService EXCEPT !.public_key = ""] }

ElectionConfigWith(otpProvider, voterAuthorizer) ==
  [election |-> [id |-> "election-1"],
   encryptionKey |-> ElectionKeyPair.publicKey,
   signingPublicKey |-> ServerKeyPair.publicKey,
   ballots |-> Ballots,
   affidavit |-> [curve |-> "k256", encryptionKey |-> "affidavit-key"],
   services |-> [otp_provider |-> otpProvider, voter_authorizer |-> voterAuthorizer]]

\* The configurations initialize may be given or may fetch: complete, or
\* with one entry of one service empty.
ElectionConfigs ==
  { ElectionConfigWith(o, CompleteService) : o \in Services } \cup
  { ElectionConfigWith(CompleteService, v) : v \in Services }

\* validateElectionConfig: the list of errors, in the order of the checks.
ConfigChecks(config) ==
  << <<config.services.otp_provider.url, "Configuration is missing OTP Provider URL">>,
     <<config.services.otp_provider.election_context_uuid,
       "Configuration is missing OTP Provider election context uuid">>,
     <<config.services.otp_provider.public_key,
       "Configuration is missing OTP Provider public key">>,
     <<config.services.voter_authorizer.url,
       "Configuration is missing Voter Authorizer URL">>,
     <<config.services.voter_authorizer.election_context_uuid,
       "Configuration is missing Voter Authorizer election context uuid">>,
     <<config.services.voter_authorizer.public_key,
       "Configuration is missing Voter Authorizer public key">> >>

Second(pair) == pair[2]
RECURSIVE MapSecond(_)
MapSecond(s) == IF s = <<>> THEN <<>> ELSE <<Second(Head(s))>> \o MapSecond(Tail(s))

IsMissing(check) == ~(Len(check[1]) > 0)
validateElectionConfig(config) == MapSecond(SelectSeq(ConfigChecks(config), IsMissing))

\* ------------------------------------------------------------------ state
VARIABLES
  electionConfig,            \* AVClient.electionConfig
  authorizationSessionId,    \* AVClient.authorizationSessionId
  email,                     \* AVClient.email
  identityConfirmationToken, \* AVClient.identityConfirmationToken
  keyPair,                   \* AVClient.keyPair
  voterIdentifier,           \* AVClient.voterIdentifier
  emptyCryptograms,          \* AVClient.emptyCryptograms
  contestIds,                \* AVClient.contestIds
  voteEncryptions,           \* AVClient.voteEncryptions
  testCode,                  \* AVClient.testCode
  keysGenerated,             \* number of key pairs randomKeyPair() has returned
  pre,                       \* the session fields when the last call was made
  calls,                     \* the collaborator requests the last call issued
  result,                    \* how the promise of the last call settled
  submission,                \* the locals of the last signAndSubmitVotes
  construction,              \* the locals of the last constructBallotCryptograms
  inFlight,                  \* the calls that have started and have not settled
  lib,                       \* the last call of a function of the crypto library
  storageClient              \* the client that is given a persistence adapter

sessionVars ==
  <<electionConfig, authorizationSessionId, email, identityConfirmationToken,
    keyPair, voterIdentifier, emptyCryptograms, contestIds, voteEncryptions, testCode>>

\* What a call that the caller awaits before the next one leaves alone.
auxVars == <<inFlight, lib, storageClient>>

vars == <<sessionVars, keysGenerated, pre, calls, result, submission, construction, auxVars>>

\* The session fields as one record.
Session ==
  [electionConfig |-> electionConfig,
   authorizationSessionId |-> authorizationSessionId,
   email |-> email,
   identityConfirmationToken |-> identityConfirmationToken,
   keyPair |-> keyPair,
   voterIdentifier |-> voterIdentifier,
   emptyCryptograms |-> emptyCryptograms,
   contestIds |-> contestIds,
   voteEncryptions |-> voteEncryptions,
   testCode |-> testCode]

\* ---------------------------------------------------------------- results
NoError == [name |-> "", message |-> "", errors |-> <<>>]
ErrorOf(name, message) == [name |-> name, message |-> message, errors |-> <<>>]
InvalidStateError(message) == ErrorOf("InvalidStateError", message)
CorruptCvrError(message) == ErrorOf("CorruptCvrError", message)
InvalidConfigError(errors) ==
  [name |-> "InvalidConfigError",
   message |-> "Received invalid election configuration. Errors:",
   errors |-> errors]
\* A promise rejected with a bare string (Promise.reject('...')).
RejectionString(message) == ErrorOf("string", message)
\* A failed request of a connector.
RequestFailures == {ErrorOf("NetworkError", "Request failed")}

Fulfilled(op, value) == [op |-> op, status |-> "fulfilled", error |-> NoError, value |-> value]
Rejected(op, error) == [op |-> op, status |-> "rejected", error |-> error, value |-> undefined]

Request(collaborator, request) == [to |-> collaborator, request |-> request]

\* The locals of signAndSubmitVotes before its first step.
NoSubmission ==
  [boardHashData |-> undefined, acknowledgeResponse |-> undefined, content |-> undefined,
   contentHash |-> undefined, voterSignature |-> undefined, sent |-> undefined,
   data |-> undefined, receipt |-> undefined, verified |-> <<>>, followsSpoil |-> FALSE]

\* The locals of constructBallotCryptograms before its first step.
NoConstruction == [cvr |-> undefined, validation |-> undefined, envelopes |-> undefined]

\* A request that carries what the claims look at of its arguments.
RequestWith(collaborator, request, payload) ==
  [to |-> collaborator, request |-> request, payload |-> payload]

\* No function of the crypto library has been called.
NoLibraryCall == [op |-> "none", args |-> <<>>, value |-> undefined, decoded |-> <<>>]

\* The client of the first AVClient class after new AVClient(storage,
\* backendUrl): nothing is persisted and the configuration is the empty
\* object.  The persistence adapter is shown by the keys the client sets.
NothingPersisted ==
  [precinctId |-> undefined, keyPair |-> undefined, emptyCryptograms |-> undefined]
NewStorageClient ==
  [storage |-> NothingPersisted,
   electionConfig |-> undefined,
   result |-> Fulfilled("constructor", undefined)]

\* getElectionConfig throws when no configuration is stored.
NoConfigurationLoaded ==
  InvalidStateError("No configuration loaded. Did you call initialize()?")

\* ------------------------------------------------------------------- Init
\* The state after new AVClient(bulletinBoardURL): no field is assigned.
Init ==
  /\ electionConfig = undefined
  /\ authorizationSessionId = undefined
  /\ email = undefined
  /\ identityConfirmationToken = undefined
  /\ keyPair = undefined
  /\ voterIdentifier = undefined
  /\ emptyCryptograms = undefined
  /\ contestIds = undefined
  /\ voteEncryptions = undefined
  /\ testCode = undefined
  /\ keysGenerated = 0
  /\ pre = Session
  /\ calls = <<>>
  /\ result = Fulfilled("constructor", undefined)
  /\ submission = NoSubmission
  /\ construction = NoConstruction
  /\ inFlight = {}
  /\ lib = NoLibraryCall
  /\ storageClient = NewStorageClient

\* ------------------------------------------------------------- initialize
\* initialize(electionConfig?): given = undefined is the call without an
\* argument, which fetches the configuration from the bulletin board.
\* Mutant: the configuration is stored before it is validated.
InitializeWith_StoresFirst(config, issued) ==
  /\ calls' = issued
  /\ electionConfig' = Some(config)
  /\ result' = IF validateElectionConfig(config) # <<>>
               THEN Rejected("initialize", InvalidConfigError(validateElectionConfig(config)))
               ELSE Fulfilled("initialize", undefined)

InitializeWith(config, issued) ==
  /\ calls' = issued
  /\ IF validateElectionConfig(config) # <<>>
     THEN /\ result' = Rejected("initialize", InvalidConfigError(validateElectionConfig(config)))
          /\ UNCHANGED electionConfig
     ELSE /\ electionConfig' = Some(config)
          /\ result' = Fulfilled("initialize", undefined)

Initialize ==
  /\ pre' = Session
  /\ UNCHANGED auxVars
  /\ \/ \E given \in ElectionConfigs : InitializeWith(given, <<>>)
     \/ \E fetched \in ElectionConfigs :
          InitializeWith(fetched, <<Request("bulletinBoard", "getElectionConfig")>>)
     \/ \E failure \in RequestFailures :
          /\ calls' = <<Request("bulletinBoard", "getElectionConfig")>>
          /\ result' = Rejected("initialize", failure)
          /\ UNCHANGED electionConfig
  /\ UNCHANGED <<authorizationSessionId, email, identityConfirmationToken, keyPair,
                 voterIdentifier, emptyCryptograms, contestIds, voteEncryptions,
                 testCode, keysGenerated>>
  /\ submission' = NoSubmission
  /\ construction' = NoConstruction

\* ------------------------------------------------------ requestAccessCode
\* Mutant: the session is created without the configuration being looked up.
RequestAccessCode_WithoutConfiguration ==
  \E opaqueVoterId \in OpaqueVoterIds, address \in Emails :
    /\ pre' = Session
    /\ UNCHANGED auxVars
    /\ calls' = <<Request("voterAuthorizationCoordinator", "createSession")>>
    /\ \/ \E sessionId \in SessionIds :
            /\ authorizationSessionId' = Some(sessionId)
            /\ email' = Some(address)
            /\ result' = Fulfilled("requestAccessCode", undefined)
       \/ \E failure \in RequestFailures :
            /\ result' = Rejected("requestAccessCode", failure)
            /\ UNCHANGED <<authorizationSessionId, email>>
    /\ UNCHANGED <<electionConfig, identityConfirmationToken, keyPair, voterIdentifier,
                   emptyCryptograms, contestIds, voteEncryptions, testCode,
                   keysGenerated>>
    /\ submission' = NoSubmission
    /\ construction' = NoConstruction

RequestAccessCode ==
  \E opaqueVoterId \in OpaqueVoterIds, address \in Emails :
    /\ pre' = Session
    /\ UNCHANGED auxVars
    /\ IF electionConfig = undefined
       THEN /\ result' = Rejected("requestAccessCode", NoConfigurationLoaded)
            /\ calls' = <<>>
            /\ UNCHANGED <<authorizationSessionId, email>>
       ELSE /\ calls' = <<Request("voterAuthorizationCoordinator", "createSession")>>
            /\ \/ \E sessionId \in SessionIds :
                    /\ authorizationSessionId' = Some(sessionId)
                    /\ email' = Some(address)
                    /\ result' = Fulfilled("requestAccessCode", undefined)
               \/ \E failure \in RequestFailures :
                    /\ result' = Rejected("requestAccessCode", failure)
                    /\ UNCHANGED <<authorizationSessionId, email>>
    /\ UNCHANGED <<electionConfig, identityConfirmationToken, keyPair, voterIdentifier,
                   emptyCryptograms, contestIds, voteEncryptions, testCode,
                   keysGenerated>>
    /\ submission' = NoSubmission
    /\ construction' = NoConstruction

\* ----------------------------------------------------- validateAccessCode
\* The token the OTP provider issues for an access code and an email.
IdentityConfirmationTokenFor(code, address) == [code |-> code, email |-> address]

\* Mutant: the configuration is looked up before the email is checked.
AccessCodeNotRequested_AfterConfig == electionConfig # undefined /\ email = undefined

\* if(!this.email)
AccessCodeNotRequested == email = undefined

ValidateAccessCode ==
  \E code \in AccessCodes :
    /\ pre' = Session
    /\ UNCHANGED auxVars
    /\ IF AccessCodeNotRequested
       THEN /\ result' = Rejected("validateAccessCode",
                 InvalidStateError("Cannot validate access code. Access code was not requested."))
            /\ calls' = <<>>
            /\ UNCHANGED identityConfirmationToken
       ELSE IF electionConfig = undefined
       THEN /\ result' = Rejected("validateAccessCode", NoConfigurationLoaded)
            /\ calls' = <<>>
            /\ UNCHANGED identityConfirmationToken
       ELSE /\ calls' = <<Request("otpProvider", "requestOTPAuthorization")>>
            /\ \/ /\ identityConfirmationToken' = Some(IdentityConfirmationTokenFor(code, Val(email)))
                  /\ result' = Fulfilled("validateAccessCode", undefined)
               \/ \E failure \in RequestFailures \cup {ErrorOf("AccessCodeInvalid", "")} :
                    /\ result' = Rejected("validateAccessCode", failure)
                    /\ UNCHANGED identityConfirmationToken
    /\ UNCHANGED <<electionConfig, authorizationSessionId, email, keyPair, voterIdentifier,
                   emptyCryptograms, contestIds, voteEncryptions, testCode,
                   keysGenerated>>
    /\ submission' = NoSubmission
    /\ construction' = NoConstruction

\* ---------------------------------------------------------- registerVoter
\* randomKeyPair(): the n-th key pair the randomness source yields.
randomKeyPair(n) == KeyPairOf(<<"voter", n>>)

\* The identifier the bulletin board gives the voter registered with a public key.
VoterIdentifierFor(publicKey) == [registered |-> publicKey]

\* The empty cryptograms the bulletin board issues for a set of contests.
EmptyCryptogramsFor(contests) ==
  [c \in contests |-> [empty_cryptogram |-> [contest |-> c, issuedBy |-> "dbb"]]]

\* Mutant: the public key sent for authorization is not the session's.
PublicKeyAuthorizationRequest_OtherKey(sessionId, token, keys) ==
  RequestWith("voterAuthorizationCoordinator", "requestPublicKeyAuthorization",
              [authorizationSessionId |-> sessionId, identityConfirmationToken |-> token,
               publicKey |-> ForeignKeyPair.publicKey])

\* coordinator.requestPublicKeyAuthorization(this.authorizationSessionId,
\* this.identityConfirmationToken, this.keyPair.publicKey)
PublicKeyAuthorizationRequest(sessionId, token, keys) ==
  RequestWith("voterAuthorizationCoordinator", "requestPublicKeyAuthorization",
              [authorizationSessionId |-> sessionId, identityConfirmationToken |-> token,
               publicKey |-> keys.publicKey])

\* Mutant: the guard tests the email instead of the token.
IdentityNotConfirmed_TestsEmail == email = undefined

\* if(!this.identityConfirmationToken)
IdentityNotConfirmed == identityConfirmationToken = undefined

RegisterVoter ==
  /\ pre' = Session
  /\ UNCHANGED auxVars
  /\ IF IdentityNotConfirmed
     THEN /\ result' = Rejected("registerVoter", InvalidStateError(
               "Cannot register voter without identity confirmation. User has not validated access code."))
          /\ calls' = <<>>
          /\ UNCHANGED <<keyPair, keysGenerated, voterIdentifier, emptyCryptograms, contestIds>>
     ELSE /\ keysGenerated < MaxKeys
          /\ keysGenerated' = keysGenerated + 1
          /\ keyPair' = Some(randomKeyPair(keysGenerated + 1))
          /\ IF electionConfig = undefined
             THEN /\ result' = Rejected("registerVoter", NoConfigurationLoaded)
                  /\ calls' = <<>>
                  /\ UNCHANGED <<voterIdentifier, emptyCryptograms, contestIds>>
             ELSE \/ \E failure \in RequestFailures :
                       /\ calls' = <<PublicKeyAuthorizationRequest(
                                       authorizationSessionId, identityConfirmationToken,
                                       Val(keyPair'))>>
                       /\ result' = Rejected("registerVoter", failure)
                       /\ UNCHANGED <<voterIdentifier, emptyCryptograms, contestIds>>
                  \/ \E failure \in RequestFailures :
                       /\ calls' = <<PublicKeyAuthorizationRequest(
                                       authorizationSessionId, identityConfirmationToken,
                                       Val(keyPair')),
                                     Request("bulletinBoard", "registerVoter")>>
                       /\ result' = Rejected("registerVoter", failure)
                       /\ UNCHANGED <<voterIdentifier, emptyCryptograms, contestIds>>
                  \/ \E eligible \in EligibleContests :
                       /\ calls' = <<PublicKeyAuthorizationRequest(
                                       authorizationSessionId, identityConfirmationToken,
                                       Val(keyPair')),
                                     Request("bulletinBoard", "registerVoter")>>
                       /\ voterIdentifier' =
                            Some(VoterIdentifierFor(randomKeyPair(keysGenerated + 1).publicKey))
                       /\ emptyCryptograms' = Some(EmptyCryptogramsFor(eligible))
                       /\ contestIds' = Some(eligible)
                       /\ result' = Fulfilled("registerVoter", undefined)
  /\ UNCHANGED <<electionConfig, authorizationSessionId, email, identityConfirmationToken,
                 voteEncryptions, testCode>>
  /\ submission' = NoSubmission
  /\ construction' = NoConstruction

\* -------------------------------------------------- authenticateWithCodes
AuthenticateWithCodes ==
  \E codes \in ElectionCodes :
    /\ pre' = Session
    /\ UNCHANGED auxVars
    /\ IF electionConfig = undefined
       THEN /\ result' = Rejected("authenticateWithCodes", NoConfigurationLoaded)
            /\ calls' = <<>>
            /\ UNCHANGED <<voterIdentifier, keyPair, emptyCryptograms>>
       ELSE /\ calls' = <<Request("bulletinBoard", "authenticate")>>
            /\ \/ \E failure \in RequestFailures :
                    /\ result' = Rejected("authenticateWithCodes", failure)
                    /\ UNCHANGED <<voterIdentifier, keyPair, emptyCryptograms>>
               \/ /\ voterIdentifier' = Some(VoterIdentifierFor(CodesKeyPair.publicKey))
                  /\ keyPair' = Some(CodesKeyPair)
                  /\ emptyCryptograms' = Some(EmptyCryptogramsFor(DOMAIN Ballots))
                  /\ result' = Fulfilled("authenticateWithCodes", undefined)
    /\ UNCHANGED <<electionConfig, authorizationSessionId, email, identityConfirmationToken,
                   contestIds, voteEncryptions, testCode, keysGenerated>>
    /\ submission' = NoSubmission
    /\ construction' = NoConstruction

\* --------------------------------------------- constructBallotCryptograms
hashString(x) == <<"sha256", x>>

validateCvr(cvr, contests) ==
  IF \E c \in DOMAIN cvr : c \notin DOMAIN contests THEN ":invalid_contest"
  ELSE IF \E c \in DOMAIN cvr : cvr[c] \notin contests[c] THEN ":invalid_option"
  ELSE ":okay"

\* EncryptVotes.encrypt: one envelope per contest of the cast vote record.
Encrypt(cvr, empties, encryptionKey, randomness) ==
  [c \in DOMAIN cvr |->
     [cryptogram |-> [onto |-> empties[c], vote |-> cvr[c],
                      randomness |-> randomness, key |-> encryptionKey],
      randomness |-> randomness,
      proof |-> [knows |-> randomness]]]

\* Mutant: the envelopes are handed on whole, with proofs and randomizers.
extractCryptograms_WholeEnvelopes(envelopes) == envelopes

extractCryptograms(envelopes) == [c \in DOMAIN envelopes |-> envelopes[c].cryptogram]

\* EncryptVotes.fingerprint
fingerprint(cryptograms) == hashString([cryptograms |-> cryptograms])

\* The number of characters of a digest written in hex: a sha256 digest has
\* 256 bits, and a hex character writes four of them.
hexDigestLength(hash) == IF hash[1] = "sha256" THEN 256 \div 4 ELSE 0

\* Mutant: the configuration is looked up before the registration is checked.
RegistrationNotCompleted_AfterConfig ==
  /\ electionConfig # undefined
  /\ ~(voterIdentifier # undefined \/ emptyCryptograms # undefined \/ contestIds # undefined)

\* if(!(this.voterIdentifier || this.emptyCryptograms || this.contestIds))
RegistrationNotCompleted ==
  ~(voterIdentifier # undefined \/ emptyCryptograms # undefined \/ contestIds # undefined)

\* this.emptyCryptograms[contestId].empty_cryptogram for every contest of the record
HasEmptyCryptograms(cvr) ==
  /\ emptyCryptograms # undefined
  /\ \A c \in DOMAIN cvr : c \in DOMAIN Val(emptyCryptograms)

\* switch(validateCvr(cvr, contests)): the verdicts that throw, and what they throw
CvrRejected(verdict) == verdict \in {":invalid_contest", ":invalid_option"}

\* Mutant: every rejected record is reported as an invalid contest.
CorruptCvrFailure_ContestOnly(verdict) ==
  CorruptCvrError("Corrupt CVR: Contains invalid contest")

CorruptCvrFailure(verdict) ==
  IF verdict = ":invalid_contest"
  THEN CorruptCvrError("Corrupt CVR: Contains invalid contest")
  ELSE CorruptCvrError("Corrupt CVR: Contains invalid option")

\* Mutant: the record is encrypted and the envelopes are stored before the
\* verdict of the validation is looked at.
ConstructBallotCryptograms_EncryptsFirst ==
  \E cvr \in CastVoteRecords, randomness \in Randomizers :
    /\ pre' = Session
    /\ UNCHANGED auxVars
    /\ calls' = <<>>
    /\ IF RegistrationNotCompleted \/ electionConfig = undefined \/ ~HasEmptyCryptograms(cvr)
       THEN /\ result' = Rejected("constructBallotCryptograms", InvalidStateError(
                 "Cannot construct ballot cryptograms. Voter registration not completed successfully"))
            /\ construction' = [NoConstruction EXCEPT !.cvr = Some(cvr)]
            /\ UNCHANGED voteEncryptions
       ELSE LET verdict == validateCvr(cvr, Val(electionConfig).ballots)
                empties == [c \in DOMAIN cvr |-> Val(emptyCryptograms)[c].empty_cryptogram]
                envelopes == Encrypt(cvr, empties, Val(electionConfig).encryptionKey,
                                     randomness)
            IN /\ voteEncryptions' = Some(envelopes)
               /\ construction' = [cvr |-> Some(cvr), validation |-> Some(verdict),
                                   envelopes |-> Some(envelopes)]
               /\ result' = IF CvrRejected(verdict)
                            THEN Rejected("constructBallotCryptograms", CorruptCvrFailure(verdict))
                            ELSE Fulfilled("constructBallotCryptograms",
                                           Some(fingerprint(extractCryptograms(envelopes))))
    /\ UNCHANGED <<electionConfig, authorizationSessionId, email, identityConfirmationToken,
                   keyPair, voterIdentifier, emptyCryptograms, contestIds, testCode,
                   keysGenerated>>
    /\ submission' = NoSubmission

\* Mutant: the cryptograms are made with randomness that does not come from
\* the randomness source.
ConstructBallotCryptograms_OwnRandomness ==
  \E cvr \in CastVoteRecords, randomness \in Randomizers, own \in Randomizers :
    /\ pre' = Session
    /\ UNCHANGED auxVars
    /\ calls' = <<>>
    /\ IF RegistrationNotCompleted
       THEN /\ result' = Rejected("constructBallotCryptograms", InvalidStateError(
                 "Cannot construct ballot cryptograms. Voter registration not completed successfully"))
            /\ construction' = [NoConstruction EXCEPT !.cvr = Some(cvr)]
            /\ UNCHANGED voteEncryptions
       ELSE IF electionConfig = undefined
       THEN /\ result' = Rejected("constructBallotCryptograms", NoConfigurationLoaded)
            /\ construction' = [NoConstruction EXCEPT !.cvr = Some(cvr)]
            /\ UNCHANGED voteEncryptions
       ELSE LET verdict == validateCvr(cvr, Val(electionConfig).ballots)
                validated == [NoConstruction EXCEPT !.cvr = Some(cvr),
                                                    !.validation = Some(verdict)]
            IN IF CvrRejected(verdict)
               THEN /\ result' = Rejected("constructBallotCryptograms", CorruptCvrFailure(verdict))
                    /\ construction' = validated
                    /\ UNCHANGED voteEncryptions
               ELSE IF ~HasEmptyCryptograms(cvr)
               THEN /\ result' = Rejected("constructBallotCryptograms",
                                          ErrorOf("TypeError", "Cannot read properties of undefined"))
                    /\ construction' = validated
                    /\ UNCHANGED voteEncryptions
               ELSE LET empties == [c \in DOMAIN cvr |->
                                      Val(emptyCryptograms)[c].empty_cryptogram]
                        made == Encrypt(cvr, empties, Val(electionConfig).encryptionKey, own)
                        envelopes == [c \in DOMAIN made |->
                                        [made[c] EXCEPT !.randomness = randomness]]
                    IN /\ voteEncryptions' = Some(envelopes)
                       /\ construction' = [validated EXCEPT !.envelopes = Some(envelopes)]
                       /\ result' = Fulfilled("constructBallotCryptograms",
                                              Some(fingerprint(extractCryptograms(envelopes))))
    /\ UNCHANGED <<electionConfig, authorizationSessionId, email, identityConfirmationToken,
                   keyPair, voterIdentifier, emptyCryptograms, contestIds, testCode,
                   keysGenerated>>
    /\ submission' = NoSubmission

\* Mutant: the new envelopes are added to the stored ones.
ConstructBallotCryptograms_MergesEnvelopes ==
  \E cvr \in CastVoteRecords, randomness \in Randomizers :
    /\ pre' = Session
    /\ UNCHANGED auxVars
    /\ calls' = <<>>
    /\ IF RegistrationNotCompleted
       THEN /\ result' = Rejected("constructBallotCryptograms", InvalidStateError(
                 "Cannot construct ballot cryptograms. Voter registration not completed successfully"))
            /\ construction' = [NoConstruction EXCEPT !.cvr = Some(cvr)]
            /\ UNCHANGED voteEncryptions
       ELSE IF electionConfig = undefined
       THEN /\ result' = Rejected("constructBallotCryptograms", NoConfigurationLoaded)
            /\ construction' = [NoConstruction EXCEPT !.cvr = Some(cvr)]
            /\ UNCHANGED voteEncryptions
       ELSE LET verdict == validateCvr(cvr, Val(electionConfig).ballots)
                validated == [NoConstruction EXCEPT !.cvr = Some(cvr),
                                                    !.validation = Some(verdict)]
            IN IF CvrRejected(verdict)
               THEN /\ result' = Rejected("constructBallotCryptograms", CorruptCvrFailure(verdict))
                    /\ construction' = validated
                    /\ UNCHANGED voteEncryptions
               ELSE IF ~HasEmptyCryptograms(cvr)
               THEN /\ result' = Rejected("constructBallotCryptograms",
                                          ErrorOf("TypeError", "Cannot read properties of undefined"))
                    /\ construction' = validated
                    /\ UNCHANGED voteEncryptions
               ELSE LET empties == [c \in DOMAIN cvr |->
                                      Val(emptyCryptograms)[c].empty_cryptogram]
                        envelopes == Encrypt(cvr, empties, Val(electionConfig).encryptionKey,
                                             randomness)
                    IN /\ voteEncryptions' =
                            Some(IF voteEncryptions = undefined
                                   THEN envelopes
                                   ELSE envelopes @@ Val(voteEncryptions))
                       /\ construction' = [validated EXCEPT !.envelopes = Some(envelopes)]
                       /\ result' = Fulfilled("constructBallotCryptograms",
                                              Some(fingerprint(extractCryptograms(envelopes))))
    /\ UNCHANGED <<electionConfig, authorizationSessionId, email, identityConfirmationToken,
                   keyPair, voterIdentifier, emptyCryptograms, contestIds, testCode,
                   keysGenerated>>
    /\ submission' = NoSubmission

ConstructBallotCryptograms ==
  \E cvr \in CastVoteRecords, randomness \in Randomizers :
    /\ pre' = Session
    /\ UNCHANGED auxVars
    /\ calls' = <<>>
    /\ IF RegistrationNotCompleted
       THEN /\ result' = Rejected("constructBallotCryptograms", InvalidStateError(
                 "Cannot construct ballot cryptograms. Voter registration not completed successfully"))
            /\ construction' = [NoConstruction EXCEPT !.cvr = Some(cvr)]
            /\ UNCHANGED voteEncryptions
       ELSE IF electionConfig = undefined
       THEN /\ result' = Rejected("constructBallotCryptograms", NoConfigurationLoaded)
            /\ construction' = [NoConstruction EXCEPT !.cvr = Some(cvr)]
            /\ UNCHANGED voteEncryptions
       ELSE LET verdict == validateCvr(cvr, Val(electionConfig).ballots)
                validated == [NoConstruction EXCEPT !.cvr = Some(cvr),
                                                    !.validation = Some(verdict)]
            IN IF CvrRejected(verdict)
               THEN /\ result' = Rejected("constructBallotCryptograms", CorruptCvrFailure(verdict))
                    /\ construction' = validated
                    /\ UNCHANGED voteEncryptions
               ELSE IF ~HasEmptyCryptograms(cvr)
               THEN /\ result' = Rejected("constructBallotCryptograms",
                                          ErrorOf("TypeError", "Cannot read properties of undefined"))
                    /\ construction' = validated
                    /\ UNCHANGED voteEncryptions
               ELSE LET empties == [c \in DOMAIN cvr |->
                                      Val(emptyCryptograms)[c].empty_cryptogram]
                        envelopes == Encrypt(cvr, empties, Val(electionConfig).encryptionKey,
                                             randomness)
                    IN /\ voteEncryptions' = Some(envelopes)
                       /\ construction' = [validated EXCEPT !.envelopes = Some(envelopes)]
                       /\ result' = Fulfilled("constructBallotCryptograms",
                                              Some(fingerprint(extractCryptograms(envelopes))))
    /\ UNCHANGED <<electionConfig, authorizationSessionId, email, identityConfirmationToken,
                   keyPair, voterIdentifier, emptyCryptograms, contestIds, testCode,
                   keysGenerated>>
    /\ submission' = NoSubmission

\* ------------------------------------------------------- generateTestCode
GenerateTestCode ==
  \E code \in TestCodes :
    /\ pre' = Session
    /\ UNCHANGED auxVars
    /\ calls' = <<>>
    /\ testCode' = Some(code)
    /\ result' = Fulfilled("generateTestCode", undefined)
    /\ UNCHANGED <<electionConfig, authorizationSessionId, email, identityConfirmationToken,
                   keyPair, voterIdentifier, emptyCryptograms, contestIds, voteEncryptions,
                   keysGenerated>>
    /\ submission' = NoSubmission
    /\ construction' = NoConstruction

\* ------------------------------------------------- spoilBallotCryptograms
\* Mutant: spoiling discards the envelopes.
SpoilBallotCryptograms_ConsumesBallot ==
  /\ pre' = Session
  /\ UNCHANGED auxVars
  /\ calls' = <<>>
  /\ result' = Rejected("spoilBallotCryptograms", ErrorOf("Error", "Not implemented yet"))
  /\ voteEncryptions' = undefined
  /\ UNCHANGED <<electionConfig, authorizationSessionId, email, identityConfirmationToken,
                 keyPair, voterIdentifier, emptyCryptograms, contestIds, testCode,
                 keysGenerated>>
  /\ submission' = NoSubmission
  /\ construction' = NoConstruction

SpoilBallotCryptograms ==
  /\ pre' = Session
  /\ UNCHANGED auxVars
  /\ calls' = <<>>
  /\ result' = Rejected("spoilBallotCryptograms", ErrorOf("Error", "Not implemented yet"))
  /\ UNCHANGED <<sessionVars, keysGenerated>>
  /\ submission' = NoSubmission
  /\ construction' = NoConstruction

\* ------------------------------------------------------------ SubmitVotes
generateSchnorrSignature(hash, privateKey) == [signed |-> hash, by |-> privateKey]
verifySchnorrSignature(signature, hash, publicKey) ==
  /\ signature.signed = hash
  /\ PublicKeyOf(signature.by) = publicKey

\* What bulletinBoard.getBoardHash() may answer.
LatestBoardHash == hashString([genesis |-> "board"])
BoardHashReplies ==
  [currentBoardHash : {undefined, Some(LatestBoardHash)},
   currentTime : {undefined, Some("2020-03-01T09:59:00.000+01:00")}]

\* The votes and the cryptograms with proofs collected from the envelopes;
\* for ... in over an undefined value runs no iteration.
\* Mutant: the proofs are put into the signed votes.
VotesOf_WithProofs(envelopes) ==
  IF envelopes = undefined THEN <<>>
  ELSE [c \in DOMAIN Val(envelopes) |->
          [cryptogram |-> Val(envelopes)[c].cryptogram, proof |-> Val(envelopes)[c].proof]]

VotesOf(envelopes) ==
  IF envelopes = undefined THEN <<>>
  ELSE [c \in DOMAIN Val(envelopes) |-> Val(envelopes)[c].cryptogram]
\* Mutant: the envelopes are sent whole, randomizers included.
CryptogramsWithProofsOf_WholeEnvelopes(envelopes) ==
  IF envelopes = undefined THEN <<>> ELSE Val(envelopes)

CryptogramsWithProofsOf(envelopes) ==
  IF envelopes = undefined THEN <<>>
  ELSE [c \in DOMAIN Val(envelopes) |->
          [cryptogram |-> Val(envelopes)[c].cryptogram, proof |-> Val(envelopes)[c].proof]]

ContentOf(acknowledgeResponse, electionId, voter, votes) ==
  [acknowledged_at |-> acknowledgeResponse.currentTime,
   acknowledged_board_hash |-> acknowledgeResponse.currentBoardHash,
   election_id |-> electionId,
   voter_identifier |-> voter,
   votes |-> votes]

computedBoardHash(contentHash, receipt) ==
  hashString([content_hash |-> contentHash,
              previous_board_hash |-> receipt.previousBoardHash,
              registered_at |-> receipt.registeredAt])

receiptHash(receipt, voterSignature) ==
  hashString([board_hash |-> receipt.boardHash, signature |-> voterSignature])

\* Mutant: only the presence of the reported board hash is checked.
BoardHashCorrupt_PresenceOnly(contentHash, receipt) == receipt.boardHash = undefined

\* if (computedBoardHash != receipt.boardHash)
BoardHashCorrupt(contentHash, receipt) ==
  Some(computedBoardHash(contentHash, receipt)) # receipt.boardHash

\* Mutant: the signer is checked, the signed receipt hash is not.
ServerSignatureCorrupt_SignerOnly(receipt, voterSignature, signatureKey) ==
  PublicKeyOf(Val(receipt.serverSignature).by) # signatureKey

\* if (!Crypto.verifySchnorrSignature(receipt.serverSignature, receiptHash, signatureKey))
ServerSignatureCorrupt(receipt, voterSignature, signatureKey) ==
  ~verifySchnorrSignature(Val(receipt.serverSignature),
                          receiptHash(receipt, voterSignature), signatureKey)

\* Mutant: the receipt is built without the vote submission id.
ReceiptOf_NoSubmissionId(data) ==
  [previousBoardHash |-> data.previousBoardHash,
   boardHash |-> data.boardHash,
   registeredAt |-> data.registeredAt,
   serverSignature |-> data.serverSignature,
   voteSubmissionId |-> undefined]

\* submit: the receipt built from the data of the response
ReceiptOf(data) ==
  [previousBoardHash |-> data.previousBoardHash,
   boardHash |-> data.boardHash,
   registeredAt |-> data.registeredAt,
   serverSignature |-> data.serverSignature,
   voteSubmissionId |-> data.voteSubmissionId]

\* What bulletinBoard.submitVotes() may answer to a content hash and a voter
\* signature: an application error, or a receipt with a board hash computed
\* over the submitted content hash or over another one, and a signature of
\* the server or of another party over either board hash.
ErrorDescriptions == {"Ballot ids do not correspond.", "Content hash does not correspond."}
PreviousBoardHash == Some(LatestBoardHash)
RegisteredAt == Some("2020-03-01T10:00:00.000+01:00")
ReportedBoardHashes(contentHash) ==
  { Some(hashString([content_hash |-> h, previous_board_hash |-> PreviousBoardHash,
                     registered_at |-> RegisteredAt]))
    : h \in {contentHash, hashString([content |-> "other"])} }
SubmitVotesReplies(contentHash, voterSignature) ==
  [error : {Some([description |-> d]) : d \in ErrorDescriptions},
   previousBoardHash : {undefined}, boardHash : {undefined}, registeredAt : {undefined},
   serverSignature : {undefined}, voteSubmissionId : {undefined}]
  \cup
  [error : {undefined},
   previousBoardHash : {PreviousBoardHash},
   boardHash : ReportedBoardHashes(contentHash),
   registeredAt : {RegisteredAt},
   serverSignature :
     { Some(generateSchnorrSignature(
              hashString([board_hash |-> b, signature |-> voterSignature]), k))
       : b \in ReportedBoardHashes(contentHash),
         k \in {ServerKeyPair.privateKey, ForeignKeyPair.privateKey} },
   voteSubmissionId : {Some(11)}]

\* Mutant: the acknowledge step rejects every answer.
acknowledgeRejects_Always(data) == TRUE

\* Mutant: the acknowledge step checks the board hash only.
acknowledgeRejects_HashOnly(data) == data.currentBoardHash = undefined

\* if (!data.currentBoardHash || !data.currentTime)
acknowledgeRejects(data) == data.currentBoardHash = undefined \/ data.currentTime = undefined

\* acknowledge: the acknowledged board built from the data of the response
AcknowledgedBoardOf(data) ==
  [currentBoardHash |-> data.currentBoardHash, currentTime |-> data.currentTime]

\* Mutant: an application error in the response is ignored.
submitRejects_Never(data) == FALSE

\* if (data.error)
submitRejects(data) == data.error # undefined

\* Mutant: an application error is reported as a failed request.
SubmitFailure_Generic(data) == ErrorOf("NetworkError", "Request failed")

\* return Promise.reject(data.error.description)
SubmitFailure(data) == RejectionString(Val(data.error).description)

\* The locals of a signAndSubmitVotes that starts now; followsSpoil records
\* whether the call made before this one was spoilBallotCryptograms.
StartedSubmission ==
  [NoSubmission EXCEPT !.followsSpoil = (result.op = "spoilBallotCryptograms")]

\* Mutant: verifyReceipt checks the server signature first.
signAndSubmitVotes_SignatureFirst(voter, electionId, envelopes, privateKey, signatureKey) ==
  \/ \E failure \in RequestFailures :
       /\ calls' = <<Request("bulletinBoard", "getBoardHash")>>
       /\ submission' = StartedSubmission
       /\ result' = Rejected("submitBallotCryptograms", failure)
  \/ \E boardHashData \in BoardHashReplies :
       IF acknowledgeRejects(boardHashData)
       THEN /\ calls' = <<Request("bulletinBoard", "getBoardHash")>>
            /\ submission' = [StartedSubmission EXCEPT !.boardHashData = Some(boardHashData)]
            /\ result' = Rejected("submitBallotCryptograms",
                                  RejectionString("Could not get latest board hash"))
       ELSE LET acknowledgeResponse == AcknowledgedBoardOf(boardHashData)
                content == ContentOf(acknowledgeResponse, electionId, voter, VotesOf(envelopes))
                contentHash == hashString(content)
                voterSignature == generateSchnorrSignature(contentHash, privateKey)
                sent == [contentHash |-> contentHash, signature |-> voterSignature,
                         cryptogramsWithProofs |-> CryptogramsWithProofsOf(envelopes)]
                signed == [StartedSubmission EXCEPT
                             !.boardHashData = Some(boardHashData),
                             !.acknowledgeResponse = Some(acknowledgeResponse),
                             !.content = Some(content),
                             !.contentHash = Some(contentHash),
                             !.voterSignature = Some(voterSignature),
                             !.sent = Some(sent)]
            IN /\ calls' = <<Request("bulletinBoard", "getBoardHash"),
                             Request("bulletinBoard", "submitVotes")>>
               /\ \/ \E failure \in RequestFailures :
                       /\ submission' = signed
                       /\ result' = Rejected("submitBallotCryptograms", failure)
                  \/ \E data \in SubmitVotesReplies(contentHash, voterSignature) :
                       IF submitRejects(data)
                       THEN /\ submission' = [signed EXCEPT !.data = Some(data)]
                            /\ result' = Rejected("submitBallotCryptograms", SubmitFailure(data))
                       ELSE IF ServerSignatureCorrupt(ReceiptOf(data), voterSignature, signatureKey)
                       THEN /\ submission' = [signed EXCEPT !.data = Some(data),
                                                !.receipt = Some(ReceiptOf(data)),
                                                !.verified = <<"serverSignature">>]
                            /\ result' = Rejected("submitBallotCryptograms",
                                            RejectionString("Invalid vote receipt: corrupt server signature"))
                       ELSE IF BoardHashCorrupt(contentHash, ReceiptOf(data))
                       THEN /\ submission' = [signed EXCEPT !.data = Some(data),
                                                !.receipt = Some(ReceiptOf(data)),
                                                !.verified = <<"serverSignature", "boardHash">>]
                            /\ result' = Rejected("submitBallotCryptograms",
                                            RejectionString("Invalid vote receipt: corrupt board hash"))
                       ELSE /\ submission' = [signed EXCEPT !.data = Some(data),
                                                !.receipt = Some(ReceiptOf(data)),
                                                !.verified = <<"boardHash", "serverSignature">>]
                            /\ result' = Fulfilled("submitBallotCryptograms",
                                                   Some(ReceiptOf(data)))

\* signAndSubmitVotes({ voterIdentifier, electionId, voteEncryptions, privateKey,
\* signatureKey }), called by submitBallotCryptograms with the session's voter
\* identifier, the election id, the session's envelopes, the voter's private
\* key and the election's signing public key.
signAndSubmitVotes(voter, electionId, envelopes, privateKey, signatureKey) ==
  \/ \E failure \in RequestFailures :
       /\ calls' = <<Request("bulletinBoard", "getBoardHash")>>
       /\ submission' = StartedSubmission
       /\ result' = Rejected("submitBallotCryptograms", failure)
  \/ \E boardHashData \in BoardHashReplies :
       IF acknowledgeRejects(boardHashData)
       THEN /\ calls' = <<Request("bulletinBoard", "getBoardHash")>>
            /\ submission' = [StartedSubmission EXCEPT !.boardHashData = Some(boardHashData)]
            /\ result' = Rejected("submitBallotCryptograms",
                                  RejectionString("Could not get latest board hash"))
       ELSE LET acknowledgeResponse == AcknowledgedBoardOf(boardHashData)
                content == ContentOf(acknowledgeResponse, electionId, voter, VotesOf(envelopes))
                contentHash == hashString(content)
                voterSignature == generateSchnorrSignature(contentHash, privateKey)
                sent == [contentHash |-> contentHash, signature |-> voterSignature,
                         cryptogramsWithProofs |-> CryptogramsWithProofsOf(envelopes)]
                signed == [StartedSubmission EXCEPT
                             !.boardHashData = Some(boardHashData),
                             !.acknowledgeResponse = Some(acknowledgeResponse),
                             !.content = Some(content),
                             !.contentHash = Some(contentHash),
                             !.voterSignature = Some(voterSignature),
                             !.sent = Some(sent)]
            IN /\ calls' = <<Request("bulletinBoard", "getBoardHash"),
                             Request("bulletinBoard", "submitVotes")>>
               /\ \/ \E failure \in RequestFailures :
                       /\ submission' = signed
                       /\ result' = Rejected("submitBallotCryptograms", failure)
                  \/ \E data \in SubmitVotesReplies(contentHash, voterSignature) :
                       IF submitRejects(data)
                       THEN /\ submission' = [signed EXCEPT !.data = Some(data)]
                            /\ result' = Rejected("submitBallotCryptograms", SubmitFailure(data))
                       ELSE IF BoardHashCorrupt(contentHash, ReceiptOf(data))
                       THEN /\ submission' = [signed EXCEPT !.data = Some(data),
                                                !.receipt = Some(ReceiptOf(data)),
                                                !.verified = <<"boardHash">>]
                            /\ result' = Rejected("submitBallotCryptograms",
                                            RejectionString("Invalid vote receipt: corrupt board hash"))
                       ELSE IF ServerSignatureCorrupt(ReceiptOf(data), voterSignature, signatureKey)
                       THEN /\ submission' = [signed EXCEPT !.data = Some(data),
                                                !.receipt = Some(ReceiptOf(data)),
                                                !.verified = <<"boardHash", "serverSignature">>]
                            /\ result' = Rejected("submitBallotCryptograms",
                                            RejectionString("Invalid vote receipt: corrupt server signature"))
                       ELSE /\ submission' = [signed EXCEPT !.data = Some(data),
                                                !.receipt = Some(ReceiptOf(data)),
                                                !.verified = <<"boardHash", "serverSignature">>]
                            /\ result' = Fulfilled("submitBallotCryptograms",
                                                   Some(ReceiptOf(data)))

\* ------------------------------------------------ submitBallotCryptograms
\* Mutant: the configuration is looked up before the guard.
NothingToSubmit_AfterConfig ==
  /\ electionConfig # undefined
  /\ ~(voterIdentifier # undefined \/ voteEncryptions # undefined)

\* if(!(this.voterIdentifier || this.voteEncryptions))
NothingToSubmit == ~(voterIdentifier # undefined \/ voteEncryptions # undefined)

\* Mutant: a call that reaches the submission protocol discards the envelopes.
SubmitBallotCryptograms_ConsumesEnvelopes ==
  \E affidavit \in Affidavits :
    /\ pre' = Session
    /\ UNCHANGED auxVars
    /\ IF NothingToSubmit
       THEN /\ result' = Rejected("submitBallotCryptograms", InvalidStateError(
                 "Cannot submit cryptograms. Voter identity unknown or no open envelopes"))
            /\ calls' = <<>>
            /\ submission' = StartedSubmission
            /\ UNCHANGED voteEncryptions
       ELSE IF electionConfig = undefined \/ keyPair = undefined
       THEN /\ result' = Rejected("submitBallotCryptograms", NoConfigurationLoaded)
            /\ calls' = <<>>
            /\ submission' = StartedSubmission
            /\ UNCHANGED voteEncryptions
       ELSE /\ signAndSubmitVotes(voterIdentifier, Val(electionConfig).election.id,
                                  voteEncryptions, Val(keyPair).privateKey,
                                  Val(electionConfig).signingPublicKey)
            /\ voteEncryptions' = undefined
    /\ construction' = NoConstruction
    /\ UNCHANGED <<electionConfig, authorizationSessionId, email, identityConfirmationToken,
                   keyPair, voterIdentifier, emptyCryptograms, contestIds, testCode,
                   keysGenerated>>

SubmitBallotCryptograms ==
  \E affidavit \in Affidavits :
    /\ pre' = Session
    /\ UNCHANGED auxVars
    /\ IF NothingToSubmit
       THEN /\ result' = Rejected("submitBallotCryptograms", InvalidStateError(
                 "Cannot submit cryptograms. Voter identity unknown or no open envelopes"))
            /\ calls' = <<>>
            /\ submission' = StartedSubmission
       ELSE IF electionConfig = undefined
       THEN /\ result' = Rejected("submitBallotCryptograms", NoConfigurationLoaded)
            /\ calls' = <<>>
            /\ submission' = StartedSubmission
       ELSE IF keyPair = undefined
       THEN /\ result' = Rejected("submitBallotCryptograms",
                                  ErrorOf("TypeError", "Cannot read properties of undefined"))
            /\ calls' = <<>>
            /\ submission' = StartedSubmission
       ELSE signAndSubmitVotes(voterIdentifier, Val(electionConfig).election.id,
                               voteEncryptions, Val(keyPair).privateKey,
                               Val(electionConfig).signingPublicKey)
    /\ construction' = NoConstruction
    /\ UNCHANGED <<sessionVars, keysGenerated>>

\* -------------------------------------------------------------- purgeData
\* purgeData(): not implemented, returns at once.
PurgeData ==
  /\ pre' = Session
  /\ UNCHANGED auxVars
  /\ calls' = <<>>
  /\ result' = Fulfilled("purgeData", undefined)
  /\ UNCHANGED <<sessionVars, keysGenerated>>
  /\ submission' = NoSubmission
  /\ construction' = NoConstruction

\* ------------------------------------------------------------------- Spec
Next ==
  \/ Initialize
  \/ RequestAccessCode
  \/ ValidateAccessCode
  \/ RegisterVoter
  \/ AuthenticateWithCodes
  \/ ConstructBallotCryptograms
  \/ GenerateTestCode
  \/ SpoilBallotCryptograms
  \/ SubmitBallotCryptograms
  \/ PurgeData

Spec == Init /\ [][Next]_vars

\* --------------------------------------------- the documented call sequence
\* The caller of the class documentation: initialize, requestAccessCode,
\* validateAccessCode, registerVoter, constructBallotCryptograms with a valid
\* record for contests the voter is eligible for, and submitBallotCryptograms,
\* each call made when the one before it has settled; generateTestCode, which
\* the documentation allows from validateAccessCode on, may come between
\* them, and purgeData may follow the submission.
\* Every collaborator answers, and answers well: no request fails, the
\* configuration is complete, the access code is accepted, the board hash
\* reply is complete and the receipt is consistent and signed by the server.
AnsweredWithoutFailure ==
  result'.error \notin RequestFailures \cup {ErrorOf("AccessCodeInvalid", "")}

\* The call of the sequence that the caller makes next.
NextInSequence ==
  IF electionConfig = undefined THEN "initialize"
  ELSE IF email = undefined THEN "requestAccessCode"
  ELSE IF identityConfirmationToken = undefined THEN "validateAccessCode"
  ELSE IF voterIdentifier = undefined THEN "registerVoter"
  ELSE IF voteEncryptions = undefined THEN "constructBallotCryptograms"
  ELSE IF result.op \notin {"submitBallotCryptograms", "purgeData"}
       THEN "submitBallotCryptograms"
  ELSE "done"

SequenceInitialize ==
  /\ NextInSequence = "initialize"
  /\ Initialize
  /\ AnsweredWithoutFailure
  /\ result'.error.name # "InvalidConfigError"

SequenceRequestAccessCode ==
  /\ NextInSequence = "requestAccessCode"
  /\ RequestAccessCode
  /\ AnsweredWithoutFailure

SequenceValidateAccessCode ==
  /\ NextInSequence = "validateAccessCode"
  /\ ValidateAccessCode
  /\ AnsweredWithoutFailure

SequenceRegisterVoter ==
  /\ NextInSequence = "registerVoter"
  /\ RegisterVoter
  /\ AnsweredWithoutFailure

SequenceConstructBallotCryptograms ==
  /\ NextInSequence = "constructBallotCryptograms"
  /\ ConstructBallotCryptograms
  /\ LET cvr == Val(construction'.cvr)
     IN /\ \A c \in DOMAIN cvr : c \in DOMAIN Ballots /\ cvr[c] \in Ballots[c]
        /\ contestIds # undefined => DOMAIN cvr \subseteq Val(contestIds)

SequenceGenerateTestCode ==
  /\ NextInSequence \in {"registerVoter", "constructBallotCryptograms",
                         "submitBallotCryptograms"}
  /\ testCode = undefined
  /\ GenerateTestCode

SequenceSubmitBallotCryptograms ==
  /\ NextInSequence = "submitBallotCryptograms"
  /\ SubmitBallotCryptograms
  /\ AnsweredWithoutFailure
  /\ submission'.boardHashData # undefined =>
       /\ Val(submission'.boardHashData).currentBoardHash # undefined
       /\ Val(submission'.boardHashData).currentTime # undefined
  /\ submission'.data # undefined =>
       LET data == Val(submission'.data)
       IN /\ data.error = undefined
          /\ data.boardHash =
               Some(hashString([content_hash |-> Val(submission'.contentHash),
                                previous_board_hash |-> data.previousBoardHash,
                                registered_at |-> data.registeredAt]))
          /\ data.serverSignature =
               Some(generateSchnorrSignature(
                      hashString([board_hash |-> data.boardHash,
                                  signature |-> Val(submission'.voterSignature)]),
                      ServerKeyPair.privateKey))

SequencePurgeData ==
  /\ result.op = "submitBallotCryptograms"
  /\ PurgeData

SequenceNext ==
  \/ SequenceInitialize
  \/ SequenceRequestAccessCode
  \/ SequenceValidateAccessCode
  \/ SequenceRegisterVoter
  \/ SequenceConstructBallotCryptograms
  \/ SequenceGenerateTestCode
  \/ SequenceSubmitBallotCryptograms
  \/ SequencePurgeData

\* The caller makes its next call as soon as the last one has settled, and
\* every request is answered.
SequenceSpec == Init /\ [][SequenceNext]_vars /\ WF_vars(SequenceNext)

\* ------------------------------------------------ calls that are not awaited
\* A caller that makes a call while an earlier one has not settled.  An
\* async method runs from its entry to its first await when it is called,
\* and from one await to the next when the awaited request is answered; the
\* client has one thread, so these pieces do not overlap, but the pieces of
\* two calls interleave.  A call in flight is recorded with the request it
\* awaits and the values it has read so far.
InFlight(op, at, address, code, keys) ==
  [op |-> op, at |-> at, email |-> address, code |-> code, keys |-> keys]

\* What the pieces leave alone: the records of awaited calls.
ConcurrentFrame == UNCHANGED <<pre, calls, submission, construction, lib, storageClient>>

MayStart == Cardinality(inFlight) < MaxInFlight

\* initialize(electionConfig) with a configuration: no await.
ConcurrentInitialize ==
  /\ electionConfig = undefined
  /\ \E given \in ElectionConfigs :
       /\ validateElectionConfig(given) = <<>>
       /\ electionConfig' = Some(given)
  /\ result' = Fulfilled("initialize", undefined)
  /\ UNCHANGED <<authorizationSessionId, email, identityConfirmationToken, keyPair,
                 voterIdentifier, emptyCryptograms, contestIds, voteEncryptions,
                 testCode, keysGenerated, inFlight>>
  /\ ConcurrentFrame

\* requestAccessCode up to coordinator.createSession(opaqueVoterId, email)
StartRequestAccessCode ==
  /\ MayStart
  /\ electionConfig # undefined
  /\ \E address \in Emails :
       inFlight' = inFlight \cup
         {InFlight("requestAccessCode", "createSession", Some(address), undefined, undefined)}
  /\ UNCHANGED <<sessionVars, keysGenerated, result>>
  /\ ConcurrentFrame

\* requestAccessCode from the answer of createSession on
FinishRequestAccessCode ==
  /\ \E call \in inFlight :
       /\ call.op = "requestAccessCode"
       /\ inFlight' = inFlight \ {call}
       /\ \/ \E sessionId \in SessionIds :
               /\ authorizationSessionId' = Some(sessionId)
               /\ email' = call.email
               /\ result' = Fulfilled("requestAccessCode", undefined)
          \/ \E failure \in RequestFailures :
               /\ result' = Rejected("requestAccessCode", failure)
               /\ UNCHANGED <<authorizationSessionId, email>>
  /\ UNCHANGED <<electionConfig, identityConfirmationToken, keyPair, voterIdentifier,
                 emptyCryptograms, contestIds, voteEncryptions, testCode, keysGenerated>>
  /\ ConcurrentFrame

\* validateAccessCode up to provider.requestOTPAuthorization(code, this.email)
StartValidateAccessCode ==
  /\ MayStart
  /\ ~AccessCodeNotRequested
  /\ electionConfig # undefined
  /\ \E code \in AccessCodes :
       inFlight' = inFlight \cup
         {InFlight("validateAccessCode", "requestOTPAuthorization", email, Some(code),
                   undefined)}
  /\ UNCHANGED <<sessionVars, keysGenerated, result>>
  /\ ConcurrentFrame

\* validateAccessCode from the answer of requestOTPAuthorization on
FinishValidateAccessCode ==
  /\ \E call \in inFlight :
       /\ call.op = "validateAccessCode"
       /\ inFlight' = inFlight \ {call}
       /\ \/ /\ identityConfirmationToken' =
                   Some(IdentityConfirmationTokenFor(Val(call.code), Val(call.email)))
             /\ result' = Fulfilled("validateAccessCode", undefined)
          \/ \E failure \in RequestFailures :
               /\ result' = Rejected("validateAccessCode", failure)
               /\ UNCHANGED identityConfirmationToken
  /\ UNCHANGED <<electionConfig, authorizationSessionId, email, keyPair, voterIdentifier,
                 emptyCryptograms, contestIds, voteEncryptions, testCode, keysGenerated>>
  /\ ConcurrentFrame

\* registerVoter up to coordinator.requestPublicKeyAuthorization(...)
StartRegisterVoter ==
  /\ MayStart
  /\ ~IdentityNotConfirmed
  /\ electionConfig # undefined
  /\ keysGenerated < MaxKeys
  /\ keysGenerated' = keysGenerated + 1
  /\ keyPair' = Some(randomKeyPair(keysGenerated + 1))
  /\ inFlight' = inFlight \cup
       {InFlight("registerVoter", "requestPublicKeyAuthorization", undefined, undefined,
                 keyPair')}
  /\ UNCHANGED <<electionConfig, authorizationSessionId, email, identityConfirmationToken,
                 voterIdentifier, emptyCryptograms, contestIds, voteEncryptions,
                 testCode, result>>
  /\ ConcurrentFrame

\* registerVoter from the answer of requestPublicKeyAuthorization to
\* registerVoter(this.bulletinBoard, this.keyPair, ...): the key pair is read
\* from the session again.
ContinueRegisterVoter ==
  /\ \E call \in inFlight :
       /\ call.op = "registerVoter"
       /\ call.at = "requestPublicKeyAuthorization"
       /\ \/ /\ inFlight' = (inFlight \ {call}) \cup
                  {InFlight("registerVoter", "registerVoter", undefined, undefined, keyPair)}
             /\ UNCHANGED result
          \/ \E failure \in RequestFailures :
               /\ inFlight' = inFlight \ {call}
               /\ result' = Rejected("registerVoter", failure)
  /\ UNCHANGED <<sessionVars, keysGenerated>>
  /\ ConcurrentFrame

\* registerVoter from the answer of the bulletin board on
FinishRegisterVoter ==
  /\ \E call \in inFlight :
       /\ call.op = "registerVoter"
       /\ call.at = "registerVoter"
       /\ inFlight' = inFlight \ {call}
       /\ \/ \E eligible \in EligibleContests :
               /\ voterIdentifier' = Some(VoterIdentifierFor(Val(call.keys).publicKey))
               /\ emptyCryptograms' = Some(EmptyCryptogramsFor(eligible))
               /\ contestIds' = Some(eligible)
               /\ result' = Fulfilled("registerVoter", undefined)
          \/ \E failure \in RequestFailures :
               /\ result' = Rejected("registerVoter", failure)
               /\ UNCHANGED <<voterIdentifier, emptyCryptograms, contestIds>>
  /\ UNCHANGED <<electionConfig, authorizationSessionId, email, identityConfirmationToken,
                 keyPair, voteEncryptions, testCode, keysGenerated>>
  /\ ConcurrentFrame

\* submitBallotCryptograms up to bulletinBoard.getBoardHash()
StartSubmitBallotCryptograms ==
  /\ MayStart
  /\ ~NothingToSubmit
  /\ electionConfig # undefined
  /\ keyPair # undefined
  /\ inFlight' = inFlight \cup
       {InFlight("submitBallotCryptograms", "getBoardHash", undefined, undefined, keyPair)}
  /\ UNCHANGED <<sessionVars, keysGenerated, result>>
  /\ ConcurrentFrame

\* submitBallotCryptograms from the answer of getBoardHash on, for a failed
\* request: the call settles and no field is assigned.
FinishSubmitBallotCryptograms ==
  /\ \E call \in inFlight :
       /\ call.op = "submitBallotCryptograms"
       /\ inFlight' = inFlight \ {call}
       /\ \E failure \in RequestFailures :
            result' = Rejected("submitBallotCryptograms", failure)
  /\ UNCHANGED <<sessionVars, keysGenerated>>
  /\ ConcurrentFrame

ConcurrentNext ==
  \/ ConcurrentInitialize
  \/ StartRequestAccessCode
  \/ FinishRequestAccessCode
  \/ StartValidateAccessCode
  \/ FinishValidateAccessCode
  \/ StartRegisterVoter
  \/ ContinueRegisterVoter
  \/ FinishRegisterVoter
  \/ StartSubmitBallotCryptograms
  \/ FinishSubmitBallotCryptograms

ConcurrentSpec == Init /\ [][ConcurrentNext]_vars

\* ------------------------------------------------------------ crypto library
\* The helpers of the cryptographic library, applied to inputs drawn from
\* bounded sets.  A string is a sequence of characters; a bit array is a
\* sequence of four-bit values; the curve is a cyclic group of GroupOrder
\* points written additively, point n being n times the generator.

\* Order of the group of points.
GroupOrder == 5

\* Length of the strings handed to the hex helpers.
MaxLen == 2

Points == 0 .. (GroupOrder - 1)
Scalars == 0 .. (GroupOrder - 1)
Nibbles == 0 .. 15

HexDigits ==
  <<"0", "1", "2", "3", "4", "5", "6", "7", "8", "9", "a", "b", "c", "d", "e", "f">>
UpperHexDigits ==
  <<"0", "1", "2", "3", "4", "5", "6", "7", "8", "9", "A", "B", "C", "D", "E", "F">>

\* the character class [0-9A-Fa-f]
IsHexChar(c) == \E n \in 1 .. 16 : HexDigits[n] = c \/ UpperHexDigits[n] = c

\* Characters of the strings tried: hex digits of both cases, a character
\* that is no hex digit, and the delimiter of the wire form.
Alphabet == {"0", "1", "a", "A", "g", ","}
HexAlphabet == {c \in Alphabet : IsHexChar(c)}

StringsOver(chars) == UNION {[1 .. n -> chars] : n \in 0 .. MaxLen}
Strings == StringsOver(Alphabet)
HexStrings == StringsOver(HexAlphabet)

\* test.match(/^[0-9A-Fa-f]+$/) !== null
MatchesHexPattern(test) ==
  /\ Len(test) >= 1
  /\ \A i \in 1 .. Len(test) : IsHexChar(test[i])

\* The pattern with * in place of +.
isValidHexString_StarQuantifier(test) ==
  IF Len(test) % 2 # 0
    THEN FALSE
    ELSE \A i \in 1 .. Len(test) : IsHexChar(test[i])

isValidHexString(test) ==
  IF Len(test) % 2 # 0
    THEN FALSE
    ELSE MatchesHexPattern(test)

\* sjcl.codec.hex: a hex digit of either case stands for its value, and the
\* digits written are lower case.
NibbleOf(c) == (CHOOSE n \in 1 .. 16 : HexDigits[n] = c \/ UpperHexDigits[n] = c) - 1
hexFromBits(bits) == [i \in 1 .. Len(bits) |-> HexDigits[bits[i] + 1]]

\* sjcl.codec.hex.toBits(str): what a character that is no hex digit stands
\* for is left open.
hexToBits(str) ==
  IF \A i \in 1 .. Len(str) : IsHexChar(str[i])
    THEN {[i \in 1 .. Len(str) |-> NibbleOf(str[i])]}
    ELSE {bits \in [1 .. Len(str) -> Nibbles] :
            \A i \in 1 .. Len(str) : IsHexChar(str[i]) => bits[i] = NibbleOf(str[i])}

\* The compressed encoding of a point: a flag and the coordinate.
pointToBits(point) == <<10, point>>
pointFromBits(bits) ==
  IF Len(bits) = 2 /\ bits[1] = 10 /\ bits[2] \in Points
    THEN Some(bits[2])
    ELSE undefined

\* sjcl.bn.fromBits / toBits: the number a bit array writes, highest first.
RECURSIVE bnFromBits(_)
bnFromBits(bits) ==
  IF bits = <<>>
    THEN 0
    ELSE 16 * bnFromBits(SubSeq(bits, 1, Len(bits) - 1)) + bits[Len(bits)]
bnToBits(n) == <<n \div 16, n % 16>>

\* pointFromHex(hex): the strings handed to the decoding, and the points it
\* may return (undefined: the decoding throws).
pointFromHex(hex) == {pointFromBits(bits) : bits \in hexToBits(hex)}
pointToHex(point) == hexFromBits(pointToBits(point))

bignumFromHex(hex) == {Some(bnFromBits(bits)) : bits \in hexToBits(hex)}
bignumToHex(bignum) == hexFromBits(bnToBits(bignum))

\* crypto.addPoints on the curve
addPoints_Subtracts(a, b) == (a + GroupOrder - b) % GroupOrder

addPoints(a, b) == (a + b) % GroupOrder

\* An ElGamal cryptogram is the pair (r, c) of points: r is the randomizer
\* times the generator and c the message plus the randomizer times the key.
Cryptograms == [r : Points, c : Points]

multiplyPoint(point, scalar) == (point * scalar) % GroupOrder
generatorTimes(scalar) == scalar % GroupOrder
subtractPoints(a, b) == (a + GroupOrder - b) % GroupOrder

encryptPoint(message, publicKey, randomizer) ==
  [r |-> generatorTimes(randomizer),
   c |-> addPoints(message, multiplyPoint(publicKey, randomizer))]

\* empty(publicKey): the identity element encrypted under publicKey
emptyCryptogram(publicKey, randomizer) == encryptPoint(0, publicKey, randomizer)

\* the message of a cryptogram, by the private key and by the randomizer
decryptWithPrivateKey(cryptogram, privateKey) ==
  subtractPoints(cryptogram.c, multiplyPoint(cryptogram.r, privateKey))
decryptWithRandomizer(cryptogram, publicKey, randomizer) ==
  subtractPoints(cryptogram.c, multiplyPoint(publicKey, randomizer))

\* ElGamalPointCryptogram.fromString(s): the two hex-encoded points on
\* either side of the delimiter; undefined when the delimiter is missing or
\* a half is no point encoding.
Delimiters(string) == {i \in 1 .. Len(string) : string[i] = ","}
FirstDelimiter(string) ==
  CHOOSE i \in Delimiters(string) : \A j \in Delimiters(string) : i <= j
fromString(string) ==
  IF Delimiters(string) = {}
    THEN {undefined}
    ELSE {IF r = undefined \/ c = undefined
            THEN undefined
            ELSE Some([r |-> Val(r), c |-> Val(c)]) :
          r \in pointFromHex(SubSeq(string, 1, FirstDelimiter(string) - 1)),
          c \in pointFromHex(SubSeq(string, FirstDelimiter(string) + 1, Len(string)))}

\* ElGamalPointCryptogram.toString()
toString(cryptogram) ==
  pointToHex(cryptogram.r) \o <<",">> \o pointToHex(cryptogram.c)

\* point1.homomorphicallyAddCryptogram(point2)
homomorphicallyAddCryptogram(point1, point2) ==
  [r |-> addPoints(point1.r, point2.r), c |-> addPoints(point1.c, point2.c)]

homomorphicallyAddCryptograms(cryptogram1, cryptogram2) ==
  {IF point1 = undefined \/ point2 = undefined
     THEN undefined
     ELSE Some(toString(homomorphicallyAddCryptogram(Val(point1), Val(point2)))) :
   point1 \in fromString(cryptogram1), point2 \in fromString(cryptogram2)}

\* Wire strings tried: two strings of hex digits on either side of the
\* delimiter, and strings without a delimiter.
WireStrings == {r \o <<",">> \o c : r \in HexStrings, c \in HexStrings} \cup HexStrings
CryptogramStrings == {toString(cryptogram) : cryptogram \in Cryptograms}

\* The contest of the decryption example: its selections take two
\* cryptograms, the first for the code of the option and the second for the
\* write-in text; option-1 declares a write-in, and option-2 stands for an
\* option that declares none.
bigContest ==
  [reference |-> "big-contest",
   cryptogramCount |-> 2,
   options |-> <<[reference |-> "option-1", code |-> 1, writeIn |-> TRUE],
                 [reference |-> "option-2", code |-> 2, writeIn |-> FALSE]>>]
contestConfigs == <<bigContest>>

\* Characters of a write-in text, each written as its place in this list;
\* the block of a slot that holds no character is the identity.
TextCharacters == <<"t", "w">>
WriteInTexts(contest) ==
  UNION {[1 .. n -> {TextCharacters[i] : i \in DOMAIN TextCharacters}] :
           n \in 0 .. (contest.cryptogramCount - 1)}
OptionSelections(contest) ==
  {[reference |-> contest.options[o].reference, text |-> undefined] :
     o \in {o \in DOMAIN contest.options : ~contest.options[o].writeIn}}
  \cup
  {[reference |-> contest.options[o].reference, text |-> Some(text)] :
     o \in {o \in DOMAIN contest.options : contest.options[o].writeIn},
     text \in WriteInTexts(contest)}

CharacterCode(character) ==
  CHOOSE i \in DOMAIN TextCharacters : TextCharacters[i] = character
OptionOf(contest, reference) ==
  contest.options[CHOOSE o \in DOMAIN contest.options :
                    contest.options[o].reference = reference]

\* The blocks of a selection: the code of the option, then the text.
encodeSelection(contest, selection) ==
  [slot \in 1 .. contest.cryptogramCount |->
     IF slot = 1
       THEN OptionOf(contest, selection.reference).code
       ELSE IF selection.text # undefined /\ slot - 1 <= Len(Val(selection.text))
              THEN CharacterCode(Val(selection.text)[slot - 1])
              ELSE 0]

RECURSIVE decodeText(_)
decodeText(blocks) ==
  IF blocks = <<>> \/ Head(blocks) = 0
    THEN <<>>
    ELSE <<TextCharacters[Head(blocks)]>> \o decodeText(Tail(blocks))

\* The selection a sequence of blocks stands for; undefined when the first
\* block is the code of no configured option or a block of the text is the
\* code of no character.
decodeSelection(contest, blocks) ==
  LET matching == {o \in DOMAIN contest.options : contest.options[o].code = blocks[1]}
      option == contest.options[CHOOSE o \in matching : TRUE]
      textDecodes == \A slot \in 2 .. Len(blocks) : blocks[slot] \in 0 .. Len(TextCharacters)
  IN  IF matching = {} \/ (option.writeIn /\ ~textDecodes)
        THEN undefined
        ELSE Some([reference |-> option.reference,
                   text |-> IF option.writeIn
                              THEN Some(decodeText(Tail(blocks)))
                              ELSE undefined])

\* encryptContestSelections: the envelope of a selection, one cryptogram and
\* one randomizer for each block.
encryptContestSelection(contest, selection, encryptionKey, randomizers) ==
  [reference |-> contest.reference,
   cryptograms |->
     [slot \in 1 .. contest.cryptogramCount |->
        toString(encryptPoint(encodeSelection(contest, selection)[slot],
                              encryptionKey, randomizers[slot]))],
   randomizers |->
     [slot \in 1 .. contest.cryptogramCount |-> bignumToHex(randomizers[slot])]]

\* The board's envelope: empty cryptograms for the contest.
emptyEnvelope(contest, encryptionKey, randomizers) ==
  [reference |-> contest.reference,
   cryptograms |->
     [slot \in 1 .. contest.cryptogramCount |->
        toString(emptyCryptogram(encryptionKey, randomizers[slot]))],
   randomizers |->
     [slot \in 1 .. contest.cryptogramCount |-> bignumToHex(randomizers[slot])]]

EnvelopeOf(contestEnvelopes, reference) ==
  contestEnvelopes[CHOOSE i \in DOMAIN contestEnvelopes :
                     contestEnvelopes[i].reference = reference]
References(contestEnvelopes) ==
  {contestEnvelopes[i].reference : i \in DOMAIN contestEnvelopes}

dummyCommitmentOpening(contestEnvelopes) ==
  [commitmentRandomness |-> <<>>,
   randomizers |-> [reference \in References(contestEnvelopes) |->
                      EnvelopeOf(contestEnvelopes, reference).randomizers]]

\* The voter's cryptograms alone.
prepareCombinedCryptograms_VoterOnly(voterEnvelopes, boardEnvelopes) ==
  [reference \in References(voterEnvelopes) |->
     EnvelopeOf(voterEnvelopes, reference).cryptograms]

prepareCombinedCryptograms(voterEnvelopes, boardEnvelopes) ==
  [reference \in References(voterEnvelopes) |->
     [index \in DOMAIN EnvelopeOf(voterEnvelopes, reference).cryptograms |->
        Val(CHOOSE sum \in homomorphicallyAddCryptograms(
                             EnvelopeOf(voterEnvelopes, reference).cryptograms[index],
                             EnvelopeOf(boardEnvelopes, reference).cryptograms[index]) :
              TRUE)]]

\* decryptContestSelections: each slot is opened with the sum of the two
\* parties' randomizers and the encryption key, and the blocks are decoded.
decryptContestSelections(configs, encryptionKey, cryptograms, boardOpening, voterOpening) ==
  [c \in DOMAIN configs |->
     LET contest == configs[c]
         randomizer(slot) ==
           (Val(CHOOSE r \in bignumFromHex(voterOpening.randomizers[contest.reference][slot]) :
                  TRUE)
            + Val(CHOOSE r \in bignumFromHex(boardOpening.randomizers[contest.reference][slot]) :
                    TRUE)) % GroupOrder
         blocks ==
           [slot \in 1 .. contest.cryptogramCount |->
              decryptWithRandomizer(
                Val(CHOOSE x \in fromString(cryptograms[contest.reference][slot]) : TRUE),
                Val(CHOOSE key \in pointFromHex(encryptionKey) : TRUE),
                randomizer(slot))]
         selection == decodeSelection(contest, blocks)
     IN  [reference |-> contest.reference,
          optionSelections |-> IF selection = undefined THEN <<>> ELSE <<Val(selection)>>]]

LibraryCall(op, args, decoded, value) ==
  [op |-> op, args |-> args, value |-> value, decoded |-> decoded]

LibraryFrame ==
  UNCHANGED <<sessionVars, keysGenerated, pre, calls, result, submission, construction,
              inFlight, storageClient>>

NoCallMade == lib = NoLibraryCall

IsValidHexString ==
  /\ NoCallMade
  /\ \E test \in Strings :
       lib' = LibraryCall("isValidHexString", <<test>>, <<>>, Some(isValidHexString(test)))
  /\ LibraryFrame

PointFromHex ==
  /\ NoCallMade
  /\ \E hex \in Strings :
       \E point \in pointFromHex(hex) :
         lib' = LibraryCall("pointFromHex", <<hex>>, <<hex>>, point)
  /\ LibraryFrame

PointToHex ==
  /\ NoCallMade
  /\ \E point \in Points :
       lib' = LibraryCall("pointToHex", <<point>>, <<>>, Some(pointToHex(point)))
  /\ LibraryFrame

BignumFromHex ==
  /\ NoCallMade
  /\ \E hex \in Strings :
       \E bignum \in bignumFromHex(hex) :
         lib' = LibraryCall("bignumFromHex", <<hex>>, <<hex>>, bignum)
  /\ LibraryFrame

BignumToHex ==
  /\ NoCallMade
  /\ \E bignum \in Scalars :
       lib' = LibraryCall("bignumToHex", <<bignum>>, <<>>, Some(bignumToHex(bignum)))
  /\ LibraryFrame

CryptogramFromString ==
  /\ NoCallMade
  /\ \E string \in WireStrings :
       \E cryptogram \in fromString(string) :
         lib' = LibraryCall("fromString", <<string>>, <<>>, cryptogram)
  /\ LibraryFrame

CryptogramToString ==
  /\ NoCallMade
  /\ \E cryptogram \in Cryptograms :
       lib' = LibraryCall("toString", <<cryptogram>>, <<>>, Some(toString(cryptogram)))
  /\ LibraryFrame

HomomorphicallyAddCryptograms ==
  /\ NoCallMade
  /\ \E cryptogram1 \in CryptogramStrings, cryptogram2 \in CryptogramStrings :
       \E sum \in homomorphicallyAddCryptograms(cryptogram1, cryptogram2) :
         lib' = LibraryCall("homomorphicallyAddCryptograms",
                            <<cryptogram1, cryptogram2>>, <<>>, sum)
  /\ LibraryFrame

DecryptContestSelections ==
  /\ NoCallMade
  /\ \E selection \in OptionSelections(bigContest), encryptionKey \in Points,
        voterRandomizers \in [1 .. bigContest.cryptogramCount -> Scalars],
        boardRandomizers \in [1 .. bigContest.cryptogramCount -> Scalars] :
       LET voterEnvelopes ==
             <<encryptContestSelection(bigContest, selection, encryptionKey,
                                       voterRandomizers)>>
           boardEnvelopes == <<emptyEnvelope(bigContest, encryptionKey, boardRandomizers)>>
       IN  lib' = LibraryCall(
                    "decryptContestSelections",
                    <<selection, encryptionKey, voterRandomizers, boardRandomizers>>,
                    <<>>,
                    Some(decryptContestSelections(
                           contestConfigs, pointToHex(encryptionKey),
                           prepareCombinedCryptograms(voterEnvelopes, boardEnvelopes),
                           dummyCommitmentOpening(boardEnvelopes),
                           dummyCommitmentOpening(voterEnvelopes))))
  /\ LibraryFrame

LibraryNext ==
  \/ DecryptContestSelections
  \/ IsValidHexString
  \/ PointFromHex
  \/ PointToHex
  \/ BignumFromHex
  \/ BignumToHex
  \/ CryptogramFromString
  \/ CryptogramToString
  \/ HomomorphicallyAddCryptograms

LibrarySpec == Init /\ [][LibraryNext]_vars

\* ------------------------------------------- client with a persistence adapter
\* The first AVClient class of av_client.ts: it is constructed with a
\* storage adapter and keeps what authentication returns in it.
PrecinctIds == {"precinct-1", "precinct-2"}
AuthenticationResponses ==
  [precinctId : PrecinctIds,
   keyPair : {CodesKeyPair, ForeignKeyPair},
   emptyCryptograms : {EmptyCryptogramsFor(eligible) : eligible \in EligibleContests}]

StorageFrame ==
  UNCHANGED <<sessionVars, keysGenerated, pre, calls, result, submission, construction,
              inFlight, lib>>

\* storage.set(key, value) for the three keys of authenticateWithCodes
PersistedAfter(authenticationResponse) ==
  [precinctId |-> Some(authenticationResponse.precinctId),
   keyPair |-> Some(authenticationResponse.keyPair),
   emptyCryptograms |-> Some(authenticationResponse.emptyCryptograms)]

\* authenticateWithCodes(codes) of the client with storage: the
\* configuration is fetched when the stored one is empty, the voter is
\* authenticated, and the response is persisted.
StorageAuthenticateWithCodes ==
  /\ \E codes \in ElectionCodes :
       \/ /\ storageClient.electionConfig = undefined
          /\ \E failure \in RequestFailures :
               storageClient' =
                 [storageClient EXCEPT !.result = Rejected("authenticateWithCodes", failure)]
       \/ \E fetched \in ElectionConfigs :
            LET config == IF storageClient.electionConfig = undefined
                            THEN Some(fetched)
                            ELSE storageClient.electionConfig
            IN  \/ \E failure \in RequestFailures :
                     storageClient' =
                       [storageClient EXCEPT
                          !.electionConfig = config,
                          !.result = Rejected("authenticateWithCodes", failure)]
                \/ \E authenticationResponse \in AuthenticationResponses :
                     storageClient' =
                       [storage |-> PersistedAfter(authenticationResponse),
                        electionConfig |-> config,
                        result |-> Fulfilled("authenticateWithCodes", Some("Success"))]
  /\ StorageFrame

\* The methods of the client with storage that return a fixed value.
StorageFixedMethods ==
  {"getBallotList", "getBallot", "submitBallotChoices", "submitAttestation",
   "cryptogramsForConfirmation", "submissionReceipt"}
StorageFixedMethod ==
  /\ \E method \in StorageFixedMethods :
       storageClient' = [storageClient EXCEPT !.result = Fulfilled(method, undefined)]
  /\ StorageFrame

StorageNext ==
  \/ StorageAuthenticateWithCodes
  \/ StorageFixedMethod

StorageSpec == Init /\ [][StorageNext]_vars

\* ----------------------------------------------------------------- claims
LastCall(op) == result.op = op
FailedWith(error) == result.status = "rejected" /\ result.error = error /\ result.value = undefined
FailedWithInvalidState == result.status = "rejected" /\ result.error.name = "InvalidStateError"

\* C1: validateAccessCode called while no email is recorded (requestAccessCode
\* never succeeded), initialized or not, fails with the InvalidStateError
\* 'Cannot validate access code. Access code was not requested.' and no
\* identity confirmation token is stored.
C1_ValidateBeforeRequestFails ==
  (LastCall("validateAccessCode") /\ pre.email = undefined) =>
     /\ FailedWith(InvalidStateError("Cannot validate access code. Access code was not requested."))
     /\ identityConfirmationToken = undefined

C1_Witness ==
  /\ LastCall("validateAccessCode")
  /\ pre.email = undefined
  /\ pre.electionConfig = undefined
  /\ result.status = "rejected"

\* C2: registerVoter called while no identity confirmation token is stored
\* fails with an InvalidStateError, whatever was called before.
C2_RegisterWithoutTokenFails ==
  (LastCall("registerVoter") /\ pre.identityConfirmationToken = undefined) =>
     FailedWithInvalidState

C2_Witness ==
  /\ LastCall("registerVoter")
  /\ pre.identityConfirmationToken = undefined
  /\ pre.email # undefined
  /\ pre.voterIdentifier # undefined
  /\ result.status = "rejected"

\* C3: constructBallotCryptograms on a client on which no registration has
\* succeeded (no voter identifier, no empty cryptograms, no contest ids),
\* initialized or not, fails with the InvalidStateError 'Cannot construct
\* ballot cryptograms. Voter registration not completed successfully'.
C3_ConstructBeforeRegistrationFails ==
  (/\ LastCall("constructBallotCryptograms")
   /\ pre.voterIdentifier = undefined
   /\ pre.emptyCryptograms = undefined
   /\ pre.contestIds = undefined) =>
     FailedWith(InvalidStateError(
       "Cannot construct ballot cryptograms. Voter registration not completed successfully"))

C3_Witness ==
  /\ LastCall("constructBallotCryptograms")
  /\ pre.voterIdentifier = undefined
  /\ pre.emptyCryptograms = undefined
  /\ pre.contestIds = undefined
  /\ pre.electionConfig = undefined
  /\ result.status = "rejected"

\* C4: constructBallotCryptograms fails with an InvalidStateError in every
\* state where at least one of voter identifier, empty cryptograms and
\* contest ids is absent.
C4_ConstructRequiresAllThree ==
  (/\ LastCall("constructBallotCryptograms")
   /\ \/ pre.voterIdentifier = undefined
      \/ pre.emptyCryptograms = undefined
      \/ pre.contestIds = undefined) =>
     FailedWithInvalidState

\* C5: submitBallotCryptograms on a client with neither a voter identifier
\* nor envelopes, initialized or not, fails with the InvalidStateError
\* 'Cannot submit cryptograms. Voter identity unknown or no open envelopes'.
C5_SubmitFirstFails ==
  (/\ LastCall("submitBallotCryptograms")
   /\ pre.voterIdentifier = undefined
   /\ pre.voteEncryptions = undefined) =>
     FailedWith(InvalidStateError(
       "Cannot submit cryptograms. Voter identity unknown or no open envelopes"))

C5_Witness ==
  /\ LastCall("submitBallotCryptograms")
  /\ pre.voterIdentifier = undefined
  /\ pre.voteEncryptions = undefined
  /\ pre.electionConfig = undefined
  /\ result.status = "rejected"

\* C6: submitBallotCryptograms called while no envelopes are stored fails
\* with an InvalidStateError and issues no request of the submission protocol.
C6_SubmitRequiresEnvelopes ==
  (LastCall("submitBallotCryptograms") /\ pre.voteEncryptions = undefined) =>
     FailedWithInvalidState /\ calls = <<>>

\* C7: every lifecycle operation called without its prerequisite fails with
\* an invalid-state error, issues no collaborator request and changes no
\* session field.
PrerequisiteAbsent ==
  \/ LastCall("requestAccessCode") /\ pre.electionConfig = undefined
  \/ LastCall("validateAccessCode") /\ pre.email = undefined
  \/ LastCall("registerVoter") /\ pre.identityConfirmationToken = undefined
  \/ /\ LastCall("constructBallotCryptograms")
     /\ \/ pre.voterIdentifier = undefined
        \/ pre.emptyCryptograms = undefined
        \/ pre.contestIds = undefined
  \/ LastCall("spoilBallotCryptograms") /\ pre.voteEncryptions = undefined
  \/ /\ LastCall("submitBallotCryptograms")
     /\ (pre.voterIdentifier = undefined \/ pre.voteEncryptions = undefined)

C7_MissingPrerequisiteFailsLocally ==
  PrerequisiteAbsent => FailedWithInvalidState /\ calls = <<>> /\ Session = pre

\* The response of submitVotes in the last submission, and what the client
\* holds when it verifies it.
Response == Val(submission.data)
ReportsBoardHash == submission.data # undefined /\ Response.boardHash # undefined
RecomputedBoardHash ==
  hashString([content_hash |-> Val(submission.contentHash),
              previous_board_hash |-> Response.previousBoardHash,
              registered_at |-> Response.registeredAt])
BoardHashConsistent == ReportsBoardHash /\ Response.boardHash = Some(RecomputedBoardHash)
ServerSignatureValid ==
  /\ ReportsBoardHash
  /\ verifySchnorrSignature(
       Val(Response.serverSignature),
       hashString([board_hash |-> Response.boardHash,
                   signature |-> Val(submission.voterSignature)]),
       Val(pre.electionConfig).signingPublicKey)

\* C8: when the response of submitVotes reports a board hash that differs
\* from the hash the client recomputes over its own content hash and the
\* response's previous board hash and registration time, the submission fails
\* with 'Invalid vote receipt: corrupt board hash' and returns no receipt.
C8_CorruptBoardHashRejected ==
  (LastCall("submitBallotCryptograms") /\ ReportsBoardHash /\ ~BoardHashConsistent) =>
     FailedWith(RejectionString("Invalid vote receipt: corrupt board hash"))

C8_Witness ==
  /\ LastCall("submitBallotCryptograms")
  /\ ReportsBoardHash
  /\ ~BoardHashConsistent
  /\ Val(submission.contentHash) = hashString(Val(submission.content))
  /\ result.error.message = "Invalid vote receipt: corrupt board hash"

\* C9: when the board hash of the response is consistent but its server
\* signature does not verify, under the election's signing public key, over
\* the hash of the board hash and the voter's signature, the submission fails
\* with 'Invalid vote receipt: corrupt server signature' and returns no receipt.
C9_CorruptServerSignatureRejected ==
  (LastCall("submitBallotCryptograms") /\ BoardHashConsistent /\ ~ServerSignatureValid) =>
     FailedWith(RejectionString("Invalid vote receipt: corrupt server signature"))

C9_Witness ==
  /\ LastCall("submitBallotCryptograms")
  /\ BoardHashConsistent
  /\ ~ServerSignatureValid
  /\ result.error.message = "Invalid vote receipt: corrupt server signature"

\* C10: a submission returns a receipt only if the acknowledge step returned
\* a board hash and a time, the response carried no application error, the
\* recomputed board hash equals the reported one and the server signature
\* verified; the receipt's five fields are those of the response.
C10_ReceiptOnlyAfterBothChecks ==
  (LastCall("submitBallotCryptograms") /\ result.status = "fulfilled") =>
     /\ submission.acknowledgeResponse # undefined
     /\ Val(submission.acknowledgeResponse).currentBoardHash # undefined
     /\ Val(submission.acknowledgeResponse).currentTime # undefined
     /\ submission.data # undefined
     /\ Response.error = undefined
     /\ BoardHashConsistent
     /\ ServerSignatureValid
     /\ result.value = Some([previousBoardHash |-> Response.previousBoardHash,
                             boardHash |-> Response.boardHash,
                             registeredAt |-> Response.registeredAt,
                             serverSignature |-> Response.serverSignature,
                             voteSubmissionId |-> Response.voteSubmissionId])

C10_Witness ==
  /\ LastCall("submitBallotCryptograms")
  /\ result.status = "fulfilled"
  /\ result.value # undefined
  /\ pre.voteEncryptions # undefined

\* The data of the getBoardHash response in the last submission, and the
\* two requests of the submission protocol.
BoardHashData == Val(submission.boardHashData)
GetBoardHashRequest == Request("bulletinBoard", "getBoardHash")
SubmitVotesRequest == Request("bulletinBoard", "submitVotes")

\* C11: when the board-hash response lacks currentBoardHash or lacks
\* currentTime, the submission fails with 'Could not get latest board hash',
\* nothing is hashed or signed, and submitVotes is not requested.
C11_AcknowledgeFailsOnIncompleteReply ==
  (/\ LastCall("submitBallotCryptograms")
   /\ submission.boardHashData # undefined
   /\ (BoardHashData.currentBoardHash = undefined \/ BoardHashData.currentTime = undefined)) =>
     /\ FailedWith(RejectionString("Could not get latest board hash"))
     /\ submission.content = undefined
     /\ submission.contentHash = undefined
     /\ submission.voterSignature = undefined
     /\ submission.sent = undefined
     /\ \A i \in DOMAIN calls : calls[i] # SubmitVotesRequest

C11_Witness ==
  /\ LastCall("submitBallotCryptograms")
  /\ submission.boardHashData # undefined
  /\ BoardHashData.currentBoardHash # undefined
  /\ BoardHashData.currentTime = undefined
  /\ pre.voteEncryptions # undefined
  /\ result.status = "rejected"

\* C12: when the response of submitVotes carries an application error, the
\* submission fails with that error's description as its failure value, the
\* receipt is not built or verified, and no receipt is returned.
C12_ApplicationErrorIsTheFailure ==
  (/\ LastCall("submitBallotCryptograms")
   /\ submission.data # undefined
   /\ Response.error # undefined) =>
     /\ FailedWith(RejectionString(Val(Response.error).description))
     /\ submission.receipt = undefined
     /\ submission.verified = <<>>

C12_Witness ==
  /\ LastCall("submitBallotCryptograms")
  /\ submission.data # undefined
  /\ Response.error = Some([description |-> "Content hash does not correspond."])
  /\ result.error.message = "Content hash does not correspond."

\* C13: the content that is hashed and signed holds exactly acknowledged_at
\* and acknowledged_board_hash of the board-hash response of this call, the
\* election id, the session's voter identifier and one cryptogram per contest
\* of the envelope set; the proofs travel beside the content, not in it; the
\* signature is made over the hash of the content with the voter's private key.
C13_SignedContent ==
  (LastCall("submitBallotCryptograms") /\ submission.content # undefined) =>
     LET content == Val(submission.content)
         sent == Val(submission.sent)
     IN /\ DOMAIN content = {"acknowledged_at", "acknowledged_board_hash", "election_id",
                             "voter_identifier", "votes"}
        /\ content.acknowledged_at = BoardHashData.currentTime
        /\ content.acknowledged_board_hash = BoardHashData.currentBoardHash
        /\ content.election_id = Val(pre.electionConfig).election.id
        /\ content.voter_identifier = pre.voterIdentifier
        /\ pre.voteEncryptions = undefined => content.votes = <<>>
        /\ pre.voteEncryptions # undefined =>
             /\ DOMAIN content.votes = DOMAIN Val(pre.voteEncryptions)
             /\ DOMAIN sent.cryptogramsWithProofs = DOMAIN Val(pre.voteEncryptions)
             /\ \A c \in DOMAIN Val(pre.voteEncryptions) :
                  /\ content.votes[c] = Val(pre.voteEncryptions)[c].cryptogram
                  /\ sent.cryptogramsWithProofs[c].cryptogram = Val(pre.voteEncryptions)[c].cryptogram
                  /\ sent.cryptogramsWithProofs[c].proof = Val(pre.voteEncryptions)[c].proof
        /\ submission.contentHash = Some(<<"sha256", content>>)
        /\ sent.contentHash = <<"sha256", content>>
        /\ submission.voterSignature =
             Some([signed |-> <<"sha256", content>>, by |-> Val(pre.keyPair).privateKey])
        /\ sent.signature = Val(submission.voterSignature)

C13_Witness ==
  /\ LastCall("submitBallotCryptograms")
  /\ submission.content # undefined
  /\ pre.voteEncryptions # undefined
  /\ DOMAIN Val(submission.content).votes = {"1", "2"}
  /\ Val(submission.voterSignature).by = Val(keyPair).privateKey

\* C14: one submitBallotCryptograms call runs acknowledge (getBoardHash),
\* sign, submitVotes and the two receipt checks in this order; getBoardHash
\* and submitVotes are requested at most once each, and a step that fails
\* ends the call: no later step runs and no request is repeated.
C14_StepsInOrderWithoutRetry ==
  LastCall("submitBallotCryptograms") =>
     /\ calls \in {<<>>, <<GetBoardHashRequest>>, <<GetBoardHashRequest, SubmitVotesRequest>>}
     /\ submission.boardHashData # undefined => calls # <<>>
     /\ submission.voterSignature # undefined =>
          /\ submission.boardHashData # undefined
          /\ BoardHashData.currentBoardHash # undefined
          /\ BoardHashData.currentTime # undefined
     /\ (SubmitVotesRequest \in {calls[i] : i \in DOMAIN calls}) <=>
          submission.voterSignature # undefined
     /\ submission.data # undefined => submission.voterSignature # undefined
     /\ submission.verified \in {<<>>, <<"boardHash">>, <<"boardHash", "serverSignature">>}
     /\ submission.verified # <<>> => submission.data # undefined /\ Response.error = undefined
     /\ submission.verified = <<"boardHash", "serverSignature">> => BoardHashConsistent
     /\ result.status = "fulfilled" => submission.verified = <<"boardHash", "serverSignature">>

C14_Witness ==
  /\ LastCall("submitBallotCryptograms")
  /\ calls = <<GetBoardHashRequest, SubmitVotesRequest>>
  /\ submission.data # undefined
  /\ ~BoardHashConsistent
  /\ Response.error = undefined
  /\ submission.verified = <<"boardHash">>
  /\ result.status = "rejected"

\* The cast vote record of the last constructBallotCryptograms, and the
\* session of a voter whose registration succeeded.
Cvr == Val(construction.cvr)
Registered ==
  /\ pre.electionConfig # undefined
  /\ pre.voterIdentifier # undefined
  /\ pre.emptyCryptograms # undefined
  /\ pre.contestIds # undefined
ConfiguredOptions == Val(pre.electionConfig).ballots
HasUnconfiguredContest == \E c \in DOMAIN Cvr : c \notin DOMAIN ConfiguredOptions
HasUnconfiguredOption ==
  /\ \A c \in DOMAIN Cvr : c \in DOMAIN ConfiguredOptions
  /\ \E c \in DOMAIN Cvr : Cvr[c] \notin ConfiguredOptions[c]

\* C15: for a registered voter, constructBallotCryptograms with a record that
\* names a contest the election does not configure fails with CorruptCvrError
\* 'Corrupt CVR: Contains invalid contest'; with a record whose contests are
\* all configured but that selects an option its contest does not configure,
\* it fails with CorruptCvrError 'Corrupt CVR: Contains invalid option'.
C15_CorruptCvrRejected ==
  (LastCall("constructBallotCryptograms") /\ Registered) =>
     /\ HasUnconfiguredContest =>
          FailedWith(CorruptCvrError("Corrupt CVR: Contains invalid contest"))
     /\ HasUnconfiguredOption =>
          FailedWith(CorruptCvrError("Corrupt CVR: Contains invalid option"))

C15_Witness ==
  /\ LastCall("constructBallotCryptograms")
  /\ Registered
  /\ HasUnconfiguredOption
  /\ result.error.name = "CorruptCvrError"

\* C16: a constructBallotCryptograms that fails with a CorruptCvrError has
\* encrypted nothing, has called no collaborator and has left every session
\* field, the envelope set included, as it was before the call.
C16_CorruptCvrHasNoEffect ==
  (/\ LastCall("constructBallotCryptograms")
   /\ result.status = "rejected"
   /\ result.error.name = "CorruptCvrError") =>
     /\ construction.envelopes = undefined
     /\ calls = <<>>
     /\ Session = pre

C16_Witness ==
  /\ LastCall("constructBallotCryptograms")
  /\ result.status = "rejected"
  /\ result.error.name = "CorruptCvrError"
  /\ pre.voteEncryptions # undefined
  /\ voteEncryptions = pre.voteEncryptions

\* C17: a lifecycle operation that fails leaves every session field, the key
\* pair included, with the value it had before the call.
C17_FailedCallLeavesSession ==
  (/\ result.op \in {"requestAccessCode", "validateAccessCode", "registerVoter",
                     "constructBallotCryptograms", "spoilBallotCryptograms",
                     "submitBallotCryptograms"}
   /\ result.status = "rejected") =>
     Session = pre

\* C18: submitBallotCryptograms, whether it returns a receipt or fails at the
\* acknowledge step, with an application error, with a corrupt board hash or
\* with a corrupt server signature, leaves the voter identifier, the key
\* pair, the empty cryptograms, the contest ids and the envelope set as they
\* were.
C18_SubmitKeepsSession ==
  LastCall("submitBallotCryptograms") =>
     /\ voterIdentifier = pre.voterIdentifier
     /\ keyPair = pre.keyPair
     /\ emptyCryptograms = pre.emptyCryptograms
     /\ contestIds = pre.contestIds
     /\ voteEncryptions = pre.voteEncryptions

C18_Witness ==
  /\ LastCall("submitBallotCryptograms")
  /\ pre.voteEncryptions # undefined
  /\ result.error.message = "Invalid vote receipt: corrupt server signature"
  /\ voteEncryptions = pre.voteEncryptions

\* C19: spoilBallotCryptograms called after initialize, requestAccessCode,
\* validateAccessCode, registerVoter, constructBallotCryptograms with a valid
\* record and generateTestCode completes and returns undefined.
C19_SpoilAfterConstructionSucceeds ==
  (/\ LastCall("spoilBallotCryptograms")
   /\ Registered
   /\ pre.identityConfirmationToken # undefined
   /\ pre.voteEncryptions # undefined
   /\ pre.testCode # undefined) =>
     result.status = "fulfilled" /\ result.value = undefined

\* C20: spoilBallotCryptograms called on a constructed ballot leaves the
\* voter identifier and the envelope set as they were, and a
\* submitBallotCryptograms that follows it passes the state guard and
\* requests the board hash: when that request fails, the call fails with the
\* failure of the request, not with an InvalidStateError.
C20_SpoilDoesNotConsumeBallot ==
  /\ (LastCall("spoilBallotCryptograms") /\ pre.voteEncryptions # undefined) =>
        /\ voterIdentifier = pre.voterIdentifier
        /\ voteEncryptions = pre.voteEncryptions
  /\ (/\ LastCall("submitBallotCryptograms")
      /\ submission.followsSpoil
      /\ pre.voteEncryptions # undefined) =>
        /\ calls # <<>>
        /\ Head(calls) = GetBoardHashRequest
        /\ ~FailedWithInvalidState
        /\ (calls = <<GetBoardHashRequest>> /\ submission.boardHashData = undefined) =>
             (result.status = "rejected" /\ result.error \in RequestFailures)

C20_Witness ==
  /\ LastCall("submitBallotCryptograms")
  /\ submission.followsSpoil
  /\ pre.voteEncryptions # undefined
  /\ pre.testCode # undefined
  /\ calls = <<GetBoardHashRequest>>
  /\ result.error \in RequestFailures

\* C21: once submitBallotCryptograms has returned a receipt for an envelope
\* set, no later call requests submitVotes for that envelope set again; in
\* particular the call that follows the receipt does not.
C21_SubmittedIsTerminal ==
  [][(/\ LastCall("submitBallotCryptograms")
      /\ result.status = "fulfilled"
      /\ pre.voteEncryptions # undefined
      /\ result'.op = "submitBallotCryptograms"
      /\ pre'.voteEncryptions = pre.voteEncryptions) =>
        \A i \in DOMAIN calls' : calls'[i] # SubmitVotesRequest]_vars

\* C22: a requestAccessCode made after an earlier one has succeeded is
\* rejected and replaces neither the stored email nor the stored
\* authorization session id.
C22_RequestAccessCodeOnlyOnce ==
  (LastCall("requestAccessCode") /\ pre.email # undefined) =>
     /\ result.status = "rejected"
     /\ email = pre.email
     /\ authorizationSessionId = pre.authorizationSessionId

\* C23: a successful registerVoter stores a key pair the session did not hold
\* before, and the voter identifier, the empty cryptograms and the contest
\* ids of the bulletin board's answer, so that all three are present and the
\* guard of constructBallotCryptograms passes; the public key it sent for
\* authorization is the public key of the key pair the session now holds.
C23_RegistrationStoresAll ==
  (LastCall("registerVoter") /\ result.status = "fulfilled") =>
     /\ keyPair # undefined
     /\ keyPair # pre.keyPair
     /\ Val(keyPair) # CodesKeyPair
     /\ voterIdentifier # undefined
     /\ emptyCryptograms # undefined
     /\ contestIds # undefined
     /\ DOMAIN Val(emptyCryptograms) = Val(contestIds)
     /\ ~RegistrationNotCompleted
     /\ Len(calls) = 2
     /\ calls[1].to = "voterAuthorizationCoordinator"
     /\ calls[1].request = "requestPublicKeyAuthorization"
     /\ calls[1].payload.publicKey = Val(keyPair).publicKey
     /\ calls[2] = Request("bulletinBoard", "registerVoter")

C23_Witness ==
  /\ LastCall("registerVoter")
  /\ result.status = "fulfilled"
  /\ pre.keyPair # undefined
  /\ pre.voterIdentifier # undefined
  /\ voterIdentifier # pre.voterIdentifier

C25_OperationsSerialized == Cardinality(inFlight) <= 1

\* The strings the interface accepts as hex: even length, at least one
\* character, every character in [0-9A-Fa-f].
HexCharacters ==
  {"0", "1", "2", "3", "4", "5", "6", "7", "8", "9",
   "a", "b", "c", "d", "e", "f", "A", "B", "C", "D", "E", "F"}
ValidHex(s) ==
  /\ Len(s) % 2 = 0
  /\ Len(s) > 0
  /\ \A i \in 1 .. Len(s) : s[i] \in HexCharacters

\* C29: isValidHexString(s) is true exactly when s has even length, has at
\* least one character and consists of characters in [0-9A-Fa-f]; it is
\* false for an odd length, for any other character and for the empty string.
C29_IsValidHexStringExact ==
  lib.op = "isValidHexString" =>
    /\ Val(lib.value) = ValidHex(lib.args[1])
    /\ (Len(lib.args[1]) % 2 = 1 \/ lib.args[1] = <<>>) => Val(lib.value) = FALSE

C29_Witness ==
  /\ lib.op = "isValidHexString"
  /\ lib.args[1] = <<"a", "A">>
  /\ Val(lib.value) = TRUE

\* C30: pointFromHex and bignumFromHex hand to the underlying decoding no
\* string that is not valid hex (odd length, or a character outside
\* [0-9A-Fa-f]): such an input is rejected before cryptographic use.
C30_InvalidHexRejectedBeforeUse ==
  lib.op \in {"pointFromHex", "bignumFromHex"} =>
    \A i \in DOMAIN lib.decoded : ValidHex(lib.decoded[i])

\* C26: for every valid selection and the contest configuration that
\* matches it, decrypting the slot-by-slot homomorphic sum of the voter's
\* cryptograms and the board's empty cryptograms with the randomizers of
\* both commitment openings gives back the selected option reference, and
\* the write-in text where the option declares a write-in.
C26_DecryptionRoundTrip ==
  lib.op = "decryptContestSelections" =>
    lib.value = Some(<<[reference |-> bigContest.reference,
                        optionSelections |-> <<lib.args[1]>>]>>)

C26_Witness ==
  /\ lib.op = "decryptContestSelections"
  /\ lib.args[1] = [reference |-> "option-1", text |-> Some(<<"w">>)]
  /\ lib.args[2] # 0
  /\ \A slot \in 1 .. bigContest.cryptogramCount :
       lib.args[3][slot] # 0 /\ lib.args[4][slot] # 0
  /\ Val(lib.value)[1].optionSelections[1].text = Some(<<"w">>)

\* The sum of two wire strings of cryptograms, and the cryptogram a wire
\* string parses to.
SumOf(a, b) == Val(CHOOSE sum \in homomorphicallyAddCryptograms(a, b) : TRUE)
Parsed(string) == Val(CHOOSE cryptogram \in fromString(string) : TRUE)

\* C27: homomorphic addition of cryptograms is commutative and associative
\* for all cryptograms a, b and c, and a cryptogram to which the empty
\* cryptogram (the identity encrypted under the key) is added decrypts to
\* the same plaintext.
C27_HomomorphicAdditionLaws ==
  lib.op = "homomorphicallyAddCryptograms" =>
    LET a == lib.args[1]
        b == lib.args[2]
    IN  /\ lib.value # undefined
        /\ Val(lib.value) = SumOf(b, a)
        /\ \A c \in CryptogramStrings :
             SumOf(Val(lib.value), c) = SumOf(a, SumOf(b, c))
        /\ \A privateKey \in Scalars, randomizer \in Scalars :
             b = toString(emptyCryptogram(generatorTimes(privateKey), randomizer)) =>
               decryptWithPrivateKey(Parsed(Val(lib.value)), privateKey)
                 = decryptWithPrivateKey(Parsed(a), privateKey)

C27_Witness ==
  /\ lib.op = "homomorphicallyAddCryptograms"
  /\ lib.value # undefined
  /\ lib.args[1] # lib.args[2]
  /\ Val(lib.value) # lib.args[1]
  /\ \E privateKey \in Scalars \ {0}, randomizer \in Scalars \ {0} :
       lib.args[2] = toString(emptyCryptogram(generatorTimes(privateKey), randomizer))

\* A valid wire string: two valid hex strings that encode points, joined by
\* the delimiter.
ValidPointEncoding(hex) == ValidHex(hex) /\ pointFromHex(hex) # {undefined}
ValidWire(string) ==
  /\ Cardinality(Delimiters(string)) = 1
  /\ ValidPointEncoding(SubSeq(string, 1, FirstDelimiter(string) - 1))
  /\ ValidPointEncoding(SubSeq(string, FirstDelimiter(string) + 1, Len(string)))

\* C28: serialization round-trips: parsing the wire form of a cryptogram x
\* yields x, and serializing the parse of a valid wire string yields that
\* string.
C28_SerializationRoundTrips ==
  /\ lib.op = "toString" => fromString(Val(lib.value)) = {Some(lib.args[1])}
  /\ (lib.op = "fromString" /\ ValidWire(lib.args[1])) =>
       /\ lib.value # undefined
       /\ toString(Val(lib.value)) = lib.args[1]

\* An envelope set with the cryptograms of the given one and other proofs
\* and randomizers.
WithOtherProofs(envelopes, randomness) ==
  [c \in DOMAIN envelopes |->
     [envelopes[c] EXCEPT !.randomness = randomness, !.proof = [knows |-> randomness]]]
ConstructionSucceeded ==
  /\ LastCall("constructBallotCryptograms")
  /\ result.status = "fulfilled"

\* C31: the tracking code constructBallotCryptograms returns is a function
\* of the cryptogram of each contest of the envelopes it made, not of their
\* proofs or randomizers: an envelope set with the same cryptograms gives
\* the same code, and so does the fingerprint computed again from the stored
\* envelopes.
C31_TrackingCodeOfCryptogramsOnly ==
  ConstructionSucceeded =>
    /\ result.value = Some(fingerprint([c \in DOMAIN Val(voteEncryptions) |->
                                          Val(voteEncryptions)[c].cryptogram]))
    /\ result.value = Some(fingerprint(extractCryptograms(Val(voteEncryptions))))
    /\ \A randomness \in Randomizers \cup {"other"} :
         fingerprint(extractCryptograms(WithOtherProofs(Val(voteEncryptions), randomness)))
           = Val(result.value)

C31_Witness ==
  /\ ConstructionSucceeded
  /\ DOMAIN Val(voteEncryptions) = {"1", "2"}
  /\ \E randomness \in Randomizers :
       WithOtherProofs(Val(voteEncryptions), randomness) # Val(voteEncryptions)

\* The randomness the source gave the last constructBallotCryptograms.
RandomnessDrawn(envelopes) == {envelopes[c].randomness : c \in DOMAIN envelopes}

C33_PrivateKeyNotPersisted ==
  storageClient.storage.keyPair # undefined =>
    "privateKey" \notin DOMAIN Val(storageClient.storage.keyPair)

\* A configuration with a non-empty url, election context uuid and public
\* key for the OTP provider and for the voter authorizer.
ServiceEntries == {"url", "election_context_uuid", "public_key"}
ConfigurationComplete(config) ==
  \A service \in {"otp_provider", "voter_authorizer"}, entry \in ServiceEntries :
    config.services[service][entry] # ""
ConfigurationRejected ==
  /\ LastCall("initialize")
  /\ result.status = "rejected"
  /\ result.error.name = "InvalidConfigError"

\* C34: an incomplete election configuration, given or fetched, is detected
\* at initialization: initialize succeeds with a complete configuration
\* only, and fails with an InvalidConfigError that names what is missing
\* otherwise; the stored configuration is then not replaced, so that a client
\* without a configuration still has none, and its operations that look the
\* configuration up fail with 'No configuration loaded. Did you call
\* initialize()?'.
C34_IncompleteConfigurationDetected ==
  /\ electionConfig # undefined => ConfigurationComplete(Val(electionConfig))
  /\ (LastCall("initialize") /\ result.status = "fulfilled") => electionConfig # undefined
  /\ ConfigurationRejected =>
       /\ result.error.errors # <<>>
       /\ electionConfig = pre.electionConfig
       /\ calls \in {<<>>, <<Request("bulletinBoard", "getElectionConfig")>>}
  /\ (/\ result.op \in {"requestAccessCode", "authenticateWithCodes"}
      /\ pre.electionConfig = undefined) =>
       /\ FailedWith(NoConfigurationLoaded)
       /\ calls = <<>>
       /\ Session = pre

C34_Witness ==
  /\ ConfigurationRejected
  /\ pre.electionConfig = undefined
  /\ electionConfig = undefined
  /\ calls = <<Request("bulletinBoard", "getElectionConfig")>>
  /\ result.error.errors = <<"Configuration is missing Voter Authorizer public key">>

\* C35: verifyReceipt checks the board hash before the server signature:
\* for a response whose board hash is inconsistent and whose server
\* signature is invalid, the failure reported is the corrupt board hash, and
\* the server signature is not evaluated.
C35_BoardHashCheckedFirst ==
  (/\ LastCall("submitBallotCryptograms")
   /\ submission.receipt # undefined
   /\ ~BoardHashConsistent
   /\ ~ServerSignatureValid) =>
     /\ FailedWith(RejectionString("Invalid vote receipt: corrupt board hash"))
     /\ submission.verified = <<"boardHash">>

C35_Witness ==
  /\ LastCall("submitBallotCryptograms")
  /\ submission.receipt # undefined
  /\ ReportsBoardHash
  /\ ~BoardHashConsistent
  /\ ~ServerSignatureValid
  /\ PublicKeyOf(Val(Response.serverSignature).by) # Val(pre.electionConfig).signingPublicKey
  /\ submission.verified = <<"boardHash">>

\* C36: whenever a voter identifier is stored, the stored key pair is the
\* key pair whose public key was registered to obtain that identifier, so
\* that every submission is signed with the private key of the registered
\* voter identifier; also after a later registerVoter that fails at one of
\* its requests.
C36_KeyPairOfVoterIdentifier ==
  /\ voterIdentifier # undefined =>
       /\ keyPair # undefined
       /\ Val(voterIdentifier) = VoterIdentifierFor(Val(keyPair).publicKey)
  /\ (/\ LastCall("submitBallotCryptograms")
      /\ submission.voterSignature # undefined
      /\ pre.voterIdentifier # undefined) =>
       Val(pre.voterIdentifier)
         = VoterIdentifierFor(PublicKeyOf(Val(submission.voterSignature).by))

\* C37: whenever registerVoter requests the authorization of a public key,
\* the identity confirmation token it sends was obtained by
\* validateAccessCode for the email, and so for the authorization session
\* created with it, that are stored at that moment; for every order of
\* repeated requestAccessCode and validateAccessCode.
C37_TokenOfStoredSession ==
  (LastCall("registerVoter") /\ calls # <<>>) =>
    /\ calls[1].payload.authorizationSessionId = pre.authorizationSessionId
    /\ calls[1].payload.identityConfirmationToken = pre.identityConfirmationToken
    /\ pre.email # undefined
    /\ Val(pre.identityConfirmationToken).email = Val(pre.email)

\* C38: the stored envelope set is that of the most recent successful
\* constructBallotCryptograms: after a successful call its contests are
\* those of the call's cast vote record and no other, each with the
\* cryptogram made onto the empty cryptogram issued for that contest; a
\* failed call and every other call leave it as it was; and a
\* submitBallotCryptograms that follows signs and sends this envelope set.
C38_EnvelopesOfLastConstruction ==
  [][/\ (result'.op = "constructBallotCryptograms" /\ result'.status = "fulfilled") =>
          /\ voteEncryptions' = construction'.envelopes
          /\ DOMAIN Val(voteEncryptions') = DOMAIN Val(construction'.cvr)
          /\ \A c \in DOMAIN Val(voteEncryptions') :
               /\ c \in DOMAIN Val(emptyCryptograms')
               /\ Val(voteEncryptions')[c].cryptogram.onto
                    = Val(emptyCryptograms')[c].empty_cryptogram
               /\ Val(voteEncryptions')[c].cryptogram.vote = Val(construction'.cvr)[c]
     /\ ~(result'.op = "constructBallotCryptograms" /\ result'.status = "fulfilled") =>
          voteEncryptions' = voteEncryptions
     /\ (/\ result'.op = "submitBallotCryptograms"
         /\ submission'.sent # undefined
         /\ voteEncryptions # undefined) =>
          /\ Val(submission'.content).votes = extractCryptograms(Val(voteEncryptions))
          /\ DOMAIN Val(submission'.sent).cryptogramsWithProofs = DOMAIN Val(voteEncryptions)
          /\ \A c \in DOMAIN Val(voteEncryptions) :
               Val(submission'.sent).cryptogramsWithProofs[c].cryptogram
                 = Val(voteEncryptions)[c].cryptogram]_vars

C38_Witness ==
  /\ ConstructionSucceeded
  /\ pre.voteEncryptions # undefined
  /\ DOMAIN Val(pre.voteEncryptions) = {"1", "2"}
  /\ DOMAIN Val(voteEncryptions) = {"1"}

\* C39: in every submission the contests of the votes in the signed content
\* are the contests of the cryptograms with proofs sent to the bulletin
\* board, with the same cryptogram for each contest, and the message sent
\* holds the content hash, the voter signature, cryptograms and proofs only:
\* no private key and no randomizer of an envelope.
C39_SentMatchesSigned ==
  (LastCall("submitBallotCryptograms") /\ submission.sent # undefined) =>
    LET sent == Val(submission.sent)
        votes == Val(submission.content).votes
    IN  /\ DOMAIN sent = {"contentHash", "signature", "cryptogramsWithProofs"}
        /\ sent.contentHash = hashString(Val(submission.content))
        /\ sent.signature = Val(submission.voterSignature)
        /\ DOMAIN votes = DOMAIN sent.cryptogramsWithProofs
        /\ \A c \in DOMAIN votes :
             /\ DOMAIN sent.cryptogramsWithProofs[c] = {"cryptogram", "proof"}
             /\ sent.cryptogramsWithProofs[c].cryptogram = votes[c]
             /\ sent.cryptogramsWithProofs[c].proof = Val(pre.voteEncryptions)[c].proof

C39_Witness ==
  /\ LastCall("submitBallotCryptograms")
  /\ submission.sent # undefined
  /\ pre.voteEncryptions # undefined
  /\ DOMAIN Val(submission.sent).cryptogramsWithProofs = {"1", "2"}
  /\ result.status = "fulfilled"

\* C40: on a client without a configuration requestAccessCode fails with
\* the InvalidStateError 'No configuration loaded. Did you call
\* initialize()?', requests nothing of the coordinator and stores no email
\* and no session id; validateAccessCode, constructBallotCryptograms and
\* submitBallotCryptograms check their own prerequisite first, and report it
\* missing in preference to the missing configuration.
C40_WithoutConfiguration ==
  /\ (LastCall("requestAccessCode") /\ pre.electionConfig = undefined) =>
       /\ FailedWith(NoConfigurationLoaded)
       /\ calls = <<>>
       /\ email = undefined
       /\ authorizationSessionId = undefined
  /\ (/\ LastCall("validateAccessCode")
      /\ pre.electionConfig = undefined
      /\ pre.email = undefined) =>
       FailedWith(InvalidStateError(
         "Cannot validate access code. Access code was not requested."))
  /\ (/\ LastCall("constructBallotCryptograms")
      /\ pre.electionConfig = undefined
      /\ pre.voterIdentifier = undefined
      /\ pre.emptyCryptograms = undefined
      /\ pre.contestIds = undefined) =>
       FailedWith(InvalidStateError(
         "Cannot construct ballot cryptograms. Voter registration not completed successfully"))
  /\ (/\ LastCall("submitBallotCryptograms")
      /\ pre.electionConfig = undefined
      /\ pre.voterIdentifier = undefined
      /\ pre.voteEncryptions = undefined) =>
       FailedWith(InvalidStateError(
         "Cannot submit cryptograms. Voter identity unknown or no open envelopes"))

C40_Witness ==
  /\ LastCall("requestAccessCode")
  /\ pre.electionConfig = undefined
  /\ FailedWith(NoConfigurationLoaded)
  /\ calls = <<>>

====
